---------------------------- MODULE Spec2Model ----------------------------
(***************************************************************************)
(* A model of the paginated-collection and analytics engine of             *)
(* freshservice_mcp/server.py: parse_link_header, the lookup cache         *)
(* (get_agent_lookup), the capped ticket walk (search_tickets_all) and the *)
(* aggregates (get_ticket_stats, get_agent_workload, get_team_comparison). *)
(*                                                                         *)
(* Every coroutine is a task.  A task stands at an await of client.get():  *)
(* one action delivers the HTTP response and runs the handler's code up to *)
(* the next await or to its return.  asyncio runs one task at a time, so    *)
(* the code between two awaits is atomic.                                  *)
(*                                                                         *)
(* Python's None is the empty tuple <<>>, a present value x is <<x>>.       *)
(***************************************************************************)
EXTENDS Integers, Sequences, FiniteSets, TLC

VARIABLES
    task,      \* task[t]: the frame of the coroutine t (pc, arguments, locals, result)
    cache,     \* _lookup_cache: agents, groups, timestamp
    clock,     \* datetime.now(), in seconds
    backend,   \* the Freshservice account: directory sizes, Link header emitted or not
    issued,    \* history: per task, the HTTP requests its current call has issued
    refreshed, \* history: the directory the last completed refresh produced
    pure       \* the input and output of a function applied on its own (SpecFold)

vars == <<task, cache, clock, backend, issued, refreshed, pure>>

None == <<>>
Some(x) == <<x>>
IsNone(v) == v = <<>>
Val(v) == v[1]

Min(a, b) == IF a <= b THEN a ELSE b
Max(a, b) == IF a >= b THEN a ELSE b

(***************************************************************************)
(* Program constants.                                                      *)
(***************************************************************************)
PageSize == 30
MaxResultsCeiling == 1000
DefaultMaxResults == 500
CacheTtl == 300

(***************************************************************************)
(* Bounds of the model.                                                    *)
(***************************************************************************)
MaxClock == 300
MaxAdvPages == 4
MaxTickets == 3

Tasks == {1, 2}

(***************************************************************************)
(* parse_link_header.  A Link header is the sequence of its comma-separated*)
(* entries.  An entry is what the two regular expressions see of it:       *)
(*   shape: TRUE when  <(.+?)>;\s*rel="(.+?)"  matches the entry,          *)
(*   page:  the number of the first page=(\d+) of the url, None without,   *)
(*   rel:   the relation.                                                  *)
(* The empty header (absent, or "") is the empty sequence.                 *)
(***************************************************************************)
LinkEntry(shape, page, rel) == [shape |-> shape, page |-> page, rel |-> rel]

RECURSIVE ParseLinks(_, _)
ParseLinks(links, pagination) ==
    IF links = <<>> THEN pagination
    ELSE LET link == Head(links)
             next == IF link.shape /\ ~IsNone(link.page)
                     THEN [r \in (DOMAIN pagination) \cup {link.rel} |->
                             IF r = link.rel THEN link.page ELSE pagination[r]]
                     ELSE pagination
         IN  ParseLinks(Tail(links), next)

parse_link_header(link_header) ==
    ParseLinks(link_header, [r \in {"next", "prev"} |-> None])

\* The text of an entry, as far as the two patterns tell entries apart:
\*   bracketed: TRUE when  <(.+?)>;\s*rel="(.+?)"  matches the entry,
\*   params:    the query parameters of its url, in order, each with its name and
\*              its value (the number its digits spell, None when it does not
\*              begin with a digit),
\*   rel:       the relation.
Param(name, value) == [name |-> name, value |-> value]
RawLink(bracketed, params, rel) == [bracketed |-> bracketed, params |-> params, rel |-> rel]

\* the parameter names that end in "page", where the text "page=" is found
PagePatternNames == {"page", "per_page"}

\* re.search(r'page=(\d+)', url): the digits after the first "page=" that has some
RECURSIVE PageMatch(_)
PageMatch(params) ==
    IF params = <<>> THEN None
    ELSE IF Head(params).name \in PagePatternNames /\ ~IsNone(Head(params).value)
    THEN Head(params).value
    ELSE PageMatch(Tail(params))

\* link_header.split(',') and the two searches on each entry
Scan(raw_header) ==
    [i \in 1..Len(raw_header) |->
        LinkEntry(raw_header[i].bracketed, PageMatch(raw_header[i].params),
                  raw_header[i].rel)]

\* `not pagination_info.get("next")`: no next relation, or page number 0
NoNext(pagination_info) ==
    IsNone(pagination_info["next"]) \/ Val(pagination_info["next"]) = 0

(***************************************************************************)
(* The HTTP API.  A collection of n records is served in pages of PageSize:*)
(* page p holds the records (p-1)*PageSize+1 .. min(p*PageSize, n), named  *)
(* by their position.  With backend.link the response carries a Link       *)
(* header with rel="next" while records remain (and rel="prev" after page  *)
(* 1); without, it carries no Link header.                                 *)
(***************************************************************************)
PageRecords(n, p) ==
    LET lo == (p - 1) * PageSize + 1
        hi == Min(p * PageSize, n)
    IN  IF p >= 1 /\ lo <= hi THEN [i \in 1..(hi - lo + 1) |-> lo + i - 1] ELSE <<>>

PageLink(n, p, link) ==
    IF ~link THEN <<>>
    ELSE (IF p > 1 THEN <<LinkEntry(TRUE, Some(p - 1), "prev")>> ELSE <<>>)
         \o (IF p * PageSize < n THEN <<LinkEntry(TRUE, Some(p + 1), "next")>> ELSE <<>>)

\* the 2xx response to "page p of a collection of n records"
OkResponse(n, p, link) ==
    [kind |-> "ok", records |-> PageRecords(n, p), link |-> PageLink(n, p, link)]

\* raise_for_status() raises httpx.HTTPStatusError; client.get() raises a transport error
FailureKinds == {"status", "network"}
FailResponse(kind) == [kind |-> kind, records |-> <<>>, link |-> <<>>]


(***************************************************************************)
(* Directory entries.  A name is the tuple of its words; "" and a missing  *)
(* field are the empty tuple.  f"{first_name} {last_name}".strip() is the  *)
(* words of both, in order.                                                *)
(***************************************************************************)
IdText(i) == ToString(i)

\* the agent and group records of the account, by id
AgentRecord(i) ==
    [id |-> i,
     first_name |-> IF i % 3 = 0 THEN <<>> ELSE <<"First">>,
     last_name |-> IF i % 2 = 0 THEN <<>> ELSE <<"Last", IdText(i)>>,
     email |-> <<"mail", IdText(i)>>]

GroupRecord(i) ==
    [id |-> i, name |-> IF i % 4 = 0 THEN None ELSE Some(<<"Team", IdText(i)>>)]

\* agents_dict[agent_id] = {"name": full_name, "email": email}
AgentEntry(agent) ==
    LET full_name == agent.first_name \o agent.last_name
    IN  [name |-> IF full_name = <<>> THEN agent.email ELSE full_name,
         email |-> agent.email]

\* groups_dict[group_id] = group.get("name", f"Group-{group_id}")
GroupEntry(group) ==
    IF IsNone(group.name) THEN <<"Group-", IdText(group.id)>> ELSE Val(group.name)

\* d[k] = v of a Python dict
Put(d, k, v) == (k :> v) @@ d

\* a sequence without its last element, and that element
Front(xs) == SubSeq(xs, 1, Len(xs) - 1)
Last(xs) == xs[Len(xs)]

\* `for agent in agents`: the dictionary after the agents with these ids, in order
RECURSIVE AddAgents(_, _)
AddAgents(agents_dict, ids) ==
    IF ids = <<>> THEN agents_dict
    ELSE Put(AddAgents(agents_dict, Front(ids)), Last(ids),
             AgentEntry(AgentRecord(Last(ids))))

\* `for group in groups`
RECURSIVE AddGroups(_, _)
AddGroups(groups_dict, ids) ==
    IF ids = <<>> THEN groups_dict
    ELSE Put(AddGroups(groups_dict, Front(ids)), Last(ids),
             GroupEntry(GroupRecord(Last(ids))))

(***************************************************************************)
(* Tickets.  A timestamp field is a record: form "missing" (no such key,   *)
(* or null), "empty" (""), "bad" (a string fromisoformat rejects) or "iso" *)
(* with its instant in seconds and whether it carries a UTC offset.        *)
(***************************************************************************)
Stamp(form, secs, aware) == [form |-> form, secs |-> secs, aware |-> aware]
NoStamp == Stamp("missing", 0, FALSE)
Iso(secs) == Stamp("iso", secs, TRUE)

\* the truth value Python gives a timestamp field
TruthyStamp(ts) == ts.form \notin {"missing", "empty"}
\* the truth value Python gives an optional number
TruthyInt(v) == ~IsNone(v) /\ Val(v) # 0

Ticket(status, priority, responder_id, type, created_at, resolved_at, updated_at) ==
    [status |-> status, priority |-> priority, responder_id |-> responder_id,
     type |-> type, created_at |-> created_at, resolved_at |-> resolved_at,
     updated_at |-> updated_at]

STATUS_OPEN == 2
STATUS_RESOLVED == 4
STATUS_CLOSED == 5

\* _map_status_name: mapping.get(status_id, f"Status-{status_id}")
_map_status_name(status_id) ==
    IF IsNone(status_id) THEN <<"Status-", "None">>
    ELSE CASE Val(status_id) = 2 -> <<"Open">>
           [] Val(status_id) = 3 -> <<"Pending">>
           [] Val(status_id) = 4 -> <<"Resolved">>
           [] Val(status_id) = 5 -> <<"Closed">>
           [] Val(status_id) = 6 -> <<"In Progress">>
           [] Val(status_id) = 7 -> <<"Pending Return">>
           [] OTHER -> <<"Status-", IdText(Val(status_id))>>

\* _map_priority_name: mapping.get(priority_id, f"Priority-{priority_id}")
_map_priority_name(priority_id) ==
    IF IsNone(priority_id) THEN <<"Priority-", "None">>
    ELSE CASE Val(priority_id) = 1 -> <<"Low">>
           [] Val(priority_id) = 2 -> <<"Medium">>
           [] Val(priority_id) = 3 -> <<"High">>
           [] Val(priority_id) = 4 -> <<"Urgent">>
           [] OTHER -> <<"Priority-", IdText(Val(priority_id))>>

\* a responder outside the directory counted as unassigned
AgentLabelNoFallback(responder_id, agents_lookup) ==
    IF TruthyInt(responder_id) /\ Val(responder_id) \in DOMAIN agents_lookup
    THEN agents_lookup[Val(responder_id)].name
    ELSE <<"Unassigned">>

\* the by_agent label of a ticket
AgentLabel(responder_id, agents_lookup) ==
    IF TruthyInt(responder_id) /\ Val(responder_id) \in DOMAIN agents_lookup
    THEN agents_lookup[Val(responder_id)].name
    ELSE IF TruthyInt(responder_id) THEN <<"Agent-", IdText(Val(responder_id))>>
    ELSE <<"Unassigned">>

\* the by_type label of a ticket: a type is a tuple of words, "" the empty tuple
TypeLabel(ticket_type) ==
    IF ~IsNone(ticket_type) /\ Val(ticket_type) # <<>> THEN Val(ticket_type)
    ELSE <<"Unknown">>

EmptyDict == [x \in {} |-> 0]

RECURSIVE SumValues(_)
SumValues(d) ==
    IF DOMAIN d = {} THEN 0
    ELSE LET k == CHOOSE x \in DOMAIN d : TRUE
         IN  d[k] + SumValues([x \in (DOMAIN d) \ {k} |-> d[x]])

\* every increment adds a key and sets it to 1
IncrementsForgotten(labels, k) == 1

\* the value `stats[...][k] += 1` leaves under k after one increment per label:
\* the number of labels equal to k
Increments(labels, k) == Cardinality({ i \in 1..Len(labels) : labels[i] = k })

\* a defaultdict(int) after `d[label] += 1` for each label: a key per label seen
Counter(labels) ==
    [k \in { labels[i] : i \in 1..Len(labels) } |-> Increments(labels, k)]

\* the loop `for ticket in all_tickets` of get_ticket_stats: its four counters
StatsLoop(tickets, agents_lookup) ==
    [by_status |-> Counter([i \in 1..Len(tickets) |->
                              _map_status_name(tickets[i].status)]),
     by_priority |-> Counter([i \in 1..Len(tickets) |->
                                _map_priority_name(tickets[i].priority)]),
     by_agent |-> Counter([i \in 1..Len(tickets) |->
                             AgentLabel(tickets[i].responder_id, agents_lookup)]),
     by_type |-> Counter([i \in 1..Len(tickets) |-> TypeLabel(tickets[i].type)])]

\* the "stats" dictionary get_ticket_stats returns
TicketStats(all_tickets, agents_lookup) ==
    LET stats == StatsLoop(all_tickets, agents_lookup)
    IN  [total_tickets |-> Len(all_tickets),
         by_status |-> stats.by_status, by_priority |-> stats.by_priority,
         by_agent |-> stats.by_agent, by_type |-> stats.by_type]

(***************************************************************************)
(* Durations and rates.  A resolution time is kept in seconds (the code's  *)
(* hours are seconds / 3600); a mean or a rate is the fraction num / den.  *)
(* round(x, 2) of a number of hours is kept in hundredths of an hour and   *)
(* round(x, 3) of a rate in thousandths: Python rounds half to even.       *)
(***************************************************************************)
SecondsPerHour == 3600

Frac(num, den) == [num |-> num, den |-> den]

\* x / d rounded to the nearest integer, halves to the even one (d > 0)
RoundHalfEven(x, d) ==
    LET q == x \div d
        r == x - q * d
    IN  IF 2 * r < d THEN q
        ELSE IF 2 * r > d THEN q + 1
        ELSE IF q % 2 = 0 THEN q ELSE q + 1

\* round(hours, 2), in hundredths of an hour, of num / den seconds
RoundHours(fr) == RoundHalfEven(100 * fr.num, SecondsPerHour * fr.den)
\* round(rate, 3), in thousandths
RoundRate(fr) == RoundHalfEven(1000 * fr.num, fr.den)

RECURSIVE SumSeq(_)
SumSeq(xs) == IF xs = <<>> THEN 0 ELSE Head(xs) + SumSeq(Tail(xs))

\* _calculate_resolution_time: None when a timestamp does not parse or when one
\* datetime is offset-aware and the other naive (TypeError), else the difference
_calculate_resolution_time(created_at, resolved_at) ==
    IF created_at.form = "iso" /\ resolved_at.form = "iso"
       /\ created_at.aware = resolved_at.aware
    THEN Some(resolved_at.secs - created_at.secs)
    ELSE None

\* res_time of one ticket: resolved_at, else updated_at, against created_at
ResTime(ticket) ==
    LET created_at == ticket.created_at
        resolved_at == IF TruthyStamp(ticket.resolved_at) THEN ticket.resolved_at
                       ELSE ticket.updated_at
    IN  IF TruthyStamp(created_at) /\ TruthyStamp(resolved_at)
        THEN _calculate_resolution_time(created_at, resolved_at)
        ELSE None

\* `if t.get("status") in [STATUS_RESOLVED, STATUS_CLOSED]` and `if res_time`
\* is not None
HasResTime(ticket) ==
    /\ ~IsNone(ticket.status)
    /\ Val(ticket.status) \in {STATUS_RESOLVED, STATUS_CLOSED}
    /\ ~IsNone(ResTime(ticket))

\* the loop that fills resolution_times, in the order of the tickets
ResolutionTimes(tickets) ==
    LET counted == SelectSeq(tickets, HasResTime)
    IN  [i \in 1..Len(counted) |-> Val(ResTime(counted[i]))]

\* avg_resolution_hours = sum(resolution_times) / len(resolution_times), or None
AverageResolution(resolution_times) ==
    IF resolution_times = <<>> THEN None
    ELSE Some(Frac(SumSeq(resolution_times), Len(resolution_times)))

\* round(avg_resolution_hours, 2) if avg_resolution_hours else None
ReportedAverage(avg_resolution_hours) ==
    IF ~IsNone(avg_resolution_hours) /\ Val(avg_resolution_hours).num # 0
    THEN Some(RoundHours(Val(avg_resolution_hours)))
    ELSE None

\* sum(1 for t in tickets if t.get("status") == status)
CountStatus(tickets, status) ==
    Cardinality({ i \in 1..Len(tickets) : tickets[i].status = Some(status) })

(***************************************************************************)
(* Ordered dictionaries (dict and defaultdict keep insertion order): a     *)
(* sequence of [key, value] items, each key once.                          *)
(***************************************************************************)
Item(key, value) == [key |-> key, value |-> value]

\* the keys of a dictionary filled per ticket with a truthy responder_id, in
\* insertion order: the responders in the order of their first ticket
ResponderKeys(tickets) ==
    LET firsts == { i \in 1..Len(tickets) :
                        /\ TruthyInt(tickets[i].responder_id)
                        /\ \A j \in 1..(i - 1) :
                              tickets[j].responder_id # tickets[i].responder_id }
    IN  [k \in 1..Cardinality(firsts) |->
            LET i == CHOOSE i \in firsts : Cardinality({ j \in firsts : j < i }) = k - 1
            IN  Val(tickets[i].responder_id)]

\* the tickets appended under one responder, in order
TicketsOf(tickets, responder_id) ==
    SelectSeq(tickets, LAMBDA t : t.responder_id = Some(responder_id))

\* the loop that fills tickets_by_agent: tickets_by_agent[responder_id].append(ticket)
GroupByResponder(tickets) ==
    LET keys == ResponderKeys(tickets)
    IN  [k \in 1..Len(keys) |-> Item(keys[k], TicketsOf(tickets, keys[k]))]

\* the loop that fills agent_ticket_counts: agent_ticket_counts[responder_id] += 1
CountByResponder(tickets) ==
    LET keys == ResponderKeys(tickets)
    IN  [k \in 1..Len(keys) |-> Item(keys[k], Len(TicketsOf(tickets, keys[k])))]

\* list.sort(key=..., reverse=True) and sorted(..., reverse=True): descending by
\* Key, elements of equal key in their original order.  Key(x) is x.tickets_assigned
\* for an agent's metrics and x.value for a counter item.
SortKey(x) == IF "tickets_assigned" \in DOMAIN x THEN x.tickets_assigned ELSE x.value

\* an element put before the elements of equal key
InsertDescBeforeEqual(sorted, x) ==
    LET before == { i \in 1..Len(sorted) : SortKey(sorted[i]) > SortKey(x) }
        n == Cardinality(before)
    IN  SubSeq(sorted, 1, n) \o <<x>> \o SubSeq(sorted, n + 1, Len(sorted))

InsertDesc(sorted, x) ==
    LET before == { i \in 1..Len(sorted) : SortKey(sorted[i]) >= SortKey(x) }
        n == Cardinality(before)
    IN  SubSeq(sorted, 1, n) \o <<x>> \o SubSeq(sorted, n + 1, Len(sorted))

RECURSIVE SortDesc(_, _)
SortDesc(xs, sorted) ==
    IF xs = <<>> THEN sorted ELSE SortDesc(Tail(xs), InsertDesc(sorted, Head(xs)))

(***************************************************************************)
(* get_agent_workload: the metrics of one agent and the sorted list        *)
(***************************************************************************)
AgentMetrics(responder_id, tickets, agents_lookup) ==
    LET known == responder_id \in DOMAIN agents_lookup
        resolution_times == ResolutionTimes(tickets)
    IN  [agent_id |-> responder_id,
         agent_name |-> IF known THEN agents_lookup[responder_id].name
                        ELSE <<"Agent-", IdText(responder_id)>>,
         email |-> IF known THEN agents_lookup[responder_id].email ELSE <<"unknown">>,
         tickets_assigned |-> Len(tickets),
         tickets_resolved |-> CountStatus(tickets, STATUS_RESOLVED),
         tickets_closed |-> CountStatus(tickets, STATUS_CLOSED),
         tickets_open |-> CountStatus(tickets, STATUS_OPEN),
         avg_resolution_hours |-> ReportedAverage(AverageResolution(resolution_times)),
         resolution_times |->
            [i \in 1..Len(resolution_times) |->
                RoundHours(Frac(resolution_times[i], 1))],
         \* not returned: the list before rounding
         raw_resolution_times |-> resolution_times]

WorkloadAgents(all_tickets, agents_lookup) ==
    LET tickets_by_agent == GroupByResponder(all_tickets)
        agent_metrics == [i \in 1..Len(tickets_by_agent) |->
                            AgentMetrics(tickets_by_agent[i].key,
                                         tickets_by_agent[i].value, agents_lookup)]
    IN  SortDesc(agent_metrics, <<>>)

(***************************************************************************)
(* get_team_comparison: the entry of one group and the summary             *)
(***************************************************************************)
TopAgentsCount == 5

\* the ranking without the cut to five
TopAgentsUncut(all_tickets, agents_lookup) ==
    LET ranked == SortDesc(CountByResponder(all_tickets), <<>>)
    IN  [i \in 1..Len(ranked) |->
            [agent_name |-> IF ranked[i].key \in DOMAIN agents_lookup
                            THEN agents_lookup[ranked[i].key].name
                            ELSE <<"Agent-", IdText(ranked[i].key)>>,
             ticket_count |-> ranked[i].value,
             agent_id |-> ranked[i].key]]

TopAgents(all_tickets, agents_lookup) ==
    LET ranked == SortDesc(CountByResponder(all_tickets), <<>>)
        top == SubSeq(ranked, 1, Min(TopAgentsCount, Len(ranked)))
    IN  [i \in 1..Len(top) |->
            [agent_name |-> IF top[i].key \in DOMAIN agents_lookup
                            THEN agents_lookup[top[i].key].name
                            ELSE <<"Agent-", IdText(top[i].key)>>,
             ticket_count |-> top[i].value,
             \* not returned: the responder the entry stands for
             agent_id |-> top[i].key]]

\* the rate of the resolved tickets alone
ClosureRateResolvedOnly(all_tickets) ==
    IF Len(all_tickets) > 0
    THEN Frac(CountStatus(all_tickets, STATUS_RESOLVED), Len(all_tickets))
    ELSE Frac(0, 1)

\* closure_rate = 0.0; if total_tickets > 0: (resolved + closed) / total
ClosureRate(all_tickets) ==
    IF Len(all_tickets) > 0
    THEN Frac(CountStatus(all_tickets, STATUS_RESOLVED)
              + CountStatus(all_tickets, STATUS_CLOSED), Len(all_tickets))
    ELSE Frac(0, 1)

GroupComparison(group_id, all_tickets, agents_lookup, groups_lookup) ==
    LET resolution_times == ResolutionTimes(all_tickets)
    IN  [group_id |-> group_id,
         group_name |-> IF group_id \in DOMAIN groups_lookup THEN groups_lookup[group_id]
                        ELSE <<"Group-", IdText(group_id)>>,
         total_tickets |-> Len(all_tickets),
         open_tickets |-> CountStatus(all_tickets, STATUS_OPEN),
         resolved_tickets |-> CountStatus(all_tickets, STATUS_RESOLVED),
         closed_tickets |-> CountStatus(all_tickets, STATUS_CLOSED),
         closure_rate |-> RoundRate(ClosureRate(all_tickets)),
         avg_resolution_hours |-> ReportedAverage(AverageResolution(resolution_times)),
         top_agents |-> TopAgents(all_tickets, agents_lookup),
         \* not returned: the list the average is taken of
         raw_resolution_times |-> resolution_times]

RECURSIVE Gcd(_, _)
Gcd(a, b) == IF b = 0 THEN a ELSE Gcd(b, a % b)

\* a / b + c / d, in lowest terms
AddFrac(x, y) ==
    LET num == x.num * y.den + y.num * x.den
        den == x.den * y.den
        g == Gcd(den, num)
    IN  Frac(num \div g, den \div g)

RECURSIVE SumFracs(_)
SumFracs(rates) ==
    IF rates = <<>> THEN Frac(0, 1) ELSE AddFrac(Head(rates), SumFracs(Tail(rates)))

\* the mean weighted by the tickets of each group: all closed over all tickets
AverageClosureRateWeighted(total_closure_rates) ==
    IF total_closure_rates = <<>> THEN Frac(0, 1)
    ELSE Frac(SumSeq([i \in 1..Len(total_closure_rates) |-> total_closure_rates[i].num]),
              SumSeq([i \in 1..Len(total_closure_rates) |-> total_closure_rates[i].den]))

\* avg_closure_rate = sum(total_closure_rates) / len(total_closure_rates), or 0.0
AverageClosureRate(total_closure_rates) ==
    IF total_closure_rates = <<>> THEN Frac(0, 1)
    ELSE LET total == SumFracs(total_closure_rates)
         IN  Frac(total.num, total.den * Len(total_closure_rates))

TeamSummary(total_tickets_all_groups, total_closure_rates) ==
    [total_tickets_all_groups |-> total_tickets_all_groups,
     average_closure_rate |-> RoundRate(AverageClosureRate(total_closure_rates))]

Incident == Some(<<"Incident">>)

SampleTicketSeq ==
    << \* an open ticket of agent 1
      Ticket(Some(2), Some(1), Some(1), Incident, Iso(0), NoStamp, Iso(60)),
      \* resolved by agent 1 after one hour
      Ticket(Some(4), Some(2), Some(1), Incident, Iso(0), Iso(3600), Iso(7200)),
      \* closed by agent 2 at its creation time
      Ticket(Some(5), Some(3), Some(2), Some(<<"Service Request">>), Iso(0), Iso(0), Iso(0)),
      \* resolved by agent 2, no resolved_at, updated an hour before created_at
      Ticket(Some(4), Some(4), Some(2), Incident, Iso(3600), NoStamp, Iso(0)),
      \* nothing set
      Ticket(None, None, None, None, NoStamp, NoStamp, NoStamp),
      \* unknown ids, a responder outside the directory, unparsable created_at
      Ticket(Some(9), Some(9), Some(7), Some(<<>>), Stamp("bad", 0, FALSE), Iso(0), Iso(0)),
      \* closed, responder 0, offset-aware created_at and naive resolved_at
      Ticket(Some(5), Some(1), Some(0), Incident, Iso(0), Stamp("iso", 7200, FALSE), NoStamp),
      \* resolved by agent 7 after 100 seconds
      Ticket(Some(4), Some(2), Some(7), Incident, Iso(0), Stamp("empty", 0, FALSE), Iso(100)) >>

SampleTickets == { SampleTicketSeq[i] : i \in 1..Len(SampleTicketSeq) }

\* the ticket the account holds at position i of a collection
TicketRecord(i) == SampleTicketSeq[((i - 1) % Len(SampleTicketSeq)) + 1]

\* the records of the positions a walk has accumulated
Records(all_tickets) == [i \in 1..Len(all_tickets) |-> TicketRecord(all_tickets[i])]

(***************************************************************************)
(* Frames.  A frame holds the arguments and locals of one call; pc names   *)
(* the await the coroutine stands at:                                      *)
(*   "idle"     no call in progress                                        *)
(*   "agents"   awaiting GET /api/v2/agents?page=<page>                    *)
(*   "groups"   awaiting GET /api/v2/groups?page=<page>                    *)
(*   "tickets"  awaiting GET /api/v2/tickets/filter?...&page=<page>        *)
(*   "done"     returned; result holds the returned dictionary             *)
(*   "raised"   left by an exception; result holds its type                *)
(* coll is the part of the account the call's ticket query selects: the    *)
(* number of matching tickets, or None for a server that answers each page *)
(* request with any page it likes (for get_team_comparison: one number per *)
(* group).  given and args keep the arguments as passed.                   *)
(***************************************************************************)
\* _lookup_cache at import
EmptyCache == [agents |-> None, groups |-> None, timestamp |-> None]

IdleFrame ==
    [pc |-> "idle", op |-> "none", coll |-> None, given |-> None, args |-> None,
     max_results |-> 0, page |-> 0, all_tickets |-> <<>>, truncated |-> FALSE,
     now |-> None, agents_dict |-> None, groups_dict |-> None, lookup |-> None,
     created_after |-> None, created_before |-> None,
     group_index |-> 0, comparison_results |-> <<>>,
     total_tickets_all_groups |-> 0, total_closure_rates |-> <<>>,
     result |-> None]

\* an entry of the request log: a GET of a page of an endpoint (for the tickets
\* of get_team_comparison, of the query of the group at this index), and how it
\* was answered: "pending", "ok" or the kind of its failure, with the page of the
\* next relation of the Link header of a 2xx response
Request(endpoint, page, group_index) ==
    [endpoint |-> endpoint, page |-> page, group_index |-> group_index,
     answer |-> "pending", next |-> None]

\* the log once its last request is answered
Answered(log, resp) ==
    [log EXCEPT ![Len(log)].answer = resp.kind,
                ![Len(log)].next = IF resp.kind = "ok"
                                   THEN parse_link_header(resp.link)["next"]
                                   ELSE None]

\* the dictionary of the `except httpx.HTTPStatusError` and `except Exception` arms
FailureResult(kind, what) ==
    IF kind = "status"
    THEN [success |-> FALSE, error |-> <<"Failed to", what>>,
          status_code |-> "status", details |-> "body"]
    ELSE [success |-> FALSE, error |-> <<"Unexpected error", what>>]

ValidationFailure(message) == [success |-> FALSE, error |-> message]

(***************************************************************************)
(* search_tickets_all                                                      *)
(***************************************************************************)
\* the ceiling left out
ClampMaxResultsNoCeiling(max_results) == max_results

\* if max_results > 1000: max_results = 1000
ClampMaxResults(max_results) ==
    IF max_results > MaxResultsCeiling THEN MaxResultsCeiling ELSE max_results

\* the cap never stops the walk
HitCapNever(all_tickets, max_results) == FALSE

\* the cap test with > for >=
HitCapStrict(all_tickets, max_results) == Len(all_tickets) > max_results

\* if len(all_tickets) >= max_results
HitCap(all_tickets, max_results) == Len(all_tickets) >= max_results

\* all_tickets[:max_results]   (max_results >= 1 here)
Truncate(all_tickets, max_results) ==
    SubSeq(all_tickets, 1, Min(max_results, Len(all_tickets)))

\* if len(tickets) < 30 and not pagination_info.get("next"): break
LastPage(tickets, pagination_info) ==
    Len(tickets) < PageSize /\ NoNext(pagination_info)

\* pages_fetched as the number of pages that held records
SearchResultCountingRecords(f) ==
    [success |-> TRUE, tickets |-> f.all_tickets, total_fetched |-> Len(f.all_tickets),
     pages_fetched |-> (Len(f.all_tickets) + PageSize - 1) \div PageSize,
     truncated |-> f.truncated]

SearchResult(f) ==
    [success |-> TRUE, tickets |-> f.all_tickets, total_fetched |-> Len(f.all_tickets),
     pages_fetched |-> f.page, truncated |-> f.truncated]

SearchReturn(f) == [f EXCEPT !.pc = "done", !.result = Some(SearchResult(f))]

\* the request sent again
WalkFailsRetrying(f, kind, what) == f

\* the failure returned with the entries of the groups collected before it
WalkFailsKeepingComparison(f, kind, what) ==
    [f EXCEPT !.pc = "done",
              !.result = Some([success |-> FALSE, error |-> <<"Failed to", what>>,
                               comparison |-> f.comparison_results])]

\* the `except` arms around a walk: the failure is returned
WalkFails(f, kind, what) ==
    [f EXCEPT !.pc = "done", !.result = Some(FailureResult(kind, what))]

\* the short-page test made before the cap test
SearchStepLastPageFirst(f, resp) ==
    IF resp.kind # "ok" THEN WalkFails(f, resp.kind, "search tickets")
    ELSE LET tickets == resp.records
             all == f.all_tickets \o tickets
         IN  IF tickets = <<>> THEN SearchReturn(f)
             ELSE IF LastPage(tickets, parse_link_header(resp.link))
             THEN SearchReturn([f EXCEPT !.all_tickets = all])
             ELSE IF HitCap(all, f.max_results)
             THEN SearchReturn([f EXCEPT !.all_tickets = Truncate(all, f.max_results),
                                         !.truncated = TRUE])
             ELSE [f EXCEPT !.all_tickets = all, !.page = f.page + 1]

\* the body of `while True` from the response of client.get() on: the frame at
\* the next await (pc = "tickets", page advanced) or at the return
SearchStep(f, resp) ==
    IF resp.kind # "ok" THEN WalkFails(f, resp.kind, "search tickets")
    ELSE LET tickets == resp.records
             all == f.all_tickets \o tickets
         IN  IF tickets = <<>> THEN SearchReturn(f)
             ELSE IF HitCap(all, f.max_results)
             THEN SearchReturn([f EXCEPT !.all_tickets = Truncate(all, f.max_results),
                                         !.truncated = TRUE])
             ELSE IF LastPage(tickets, parse_link_header(resp.link))
             THEN SearchReturn([f EXCEPT !.all_tickets = all])
             ELSE [f EXCEPT !.all_tickets = all, !.page = f.page + 1]

\* the requests a step adds to the log: the one of the await it stops at
Issues(f) ==
    IF f.pc \in {"agents", "groups", "tickets"}
    THEN <<Request(f.pc, f.page, f.group_index)>> ELSE <<>>

CallSearch(t, max_results, coll) ==
    /\ task[t].pc = "idle"
    /\ LET mr == ClampMaxResults(max_results)
           f == IF mr < 1
                THEN [IdleFrame EXCEPT !.pc = "done", !.op = "search_tickets_all",
                        !.given = Some(max_results), !.max_results = mr,
                        !.result = Some(ValidationFailure("max_results must be at least 1"))]
                ELSE [IdleFrame EXCEPT !.pc = "tickets", !.op = "search_tickets_all",
                        !.given = Some(max_results), !.coll = coll,
                        !.max_results = mr, !.page = 1]
       IN  /\ task' = [task EXCEPT ![t] = f]
           /\ issued' = [issued EXCEPT ![t] = Issues(f)]
    /\ UNCHANGED <<cache, clock, backend, refreshed, pure>>

\* what the server may answer to the ticket request the frame awaits
AdvSizes == {0, 1, PageSize - 1, PageSize, PageSize + 1}
AdvLinks(p) ==
    {<<>>, <<LinkEntry(TRUE, Some(p + 1), "next")>>, <<LinkEntry(TRUE, Some(p + 2), "next")>>}

TicketResponses(f) ==
    { FailResponse(k) : k \in FailureKinds }
    \cup (IF ~IsNone(f.coll)
          THEN { OkResponse(Val(f.coll), f.page, backend.link) }
          ELSE IF f.page > MaxAdvPages THEN {}
          ELSE { [kind |-> "ok",
                  records |-> [i \in 1..n |-> (f.page - 1) * PageSize + i],
                  link |-> l] : n \in AdvSizes, l \in AdvLinks(f.page) })

\* the walker leaving the time of its last page in the cache
SearchResponseStamping(t) ==
    /\ task[t].pc = "tickets"
    /\ task[t].op = "search_tickets_all"
    /\ \E resp \in TicketResponses(task[t]) :
         LET f == SearchStep(task[t], resp)
         IN  /\ task' = [task EXCEPT ![t] = f]
             /\ issued' = [issued EXCEPT ![t] = Answered(@, resp) \o Issues(f)]
    /\ cache' = [cache EXCEPT !.timestamp = Some(clock)]
    /\ UNCHANGED <<clock, backend, refreshed, pure>>

SearchResponse(t) ==
    /\ task[t].pc = "tickets"
    /\ task[t].op = "search_tickets_all"
    /\ \E resp \in TicketResponses(task[t]) :
         LET f == SearchStep(task[t], resp)
         IN  /\ task' = [task EXCEPT ![t] = f]
             /\ issued' = [issued EXCEPT ![t] = Answered(@, resp) \o Issues(f)]
    /\ UNCHANGED <<cache, clock, backend, refreshed, pure>>

\* the caller takes the returned dictionary; the frame is gone
Return(t) ==
    /\ task[t].pc \in {"done", "raised"}
    /\ task' = [task EXCEPT ![t] = IdleFrame]
    /\ issued' = [issued EXCEPT ![t] = <<>>]
    /\ UNCHANGED <<cache, clock, backend, refreshed, pure>>

(***************************************************************************)
(* The ticket walk of get_ticket_stats, get_agent_workload and             *)
(* get_team_comparison (the same loop, without a cap), and what each does  *)
(* with the collected tickets.                                             *)
(***************************************************************************)
DateRange(f) == [start |-> f.created_after, end |-> f.created_before]

\* groups_lookup.get(group_id) if group_id else None
GroupName(group_id, groups_lookup) ==
    IF TruthyInt(group_id) /\ Val(group_id) \in DOMAIN groups_lookup
    THEN Some(groups_lookup[Val(group_id)]) ELSE None

\* the names looked up in the cache when the result is built
StatsResultFromCache(f) ==
    [success |-> TRUE,
     stats |-> TicketStats(Records(f.all_tickets), Val(cache.agents)),
     filters |-> [group_id |-> Val(f.args).group_id,
                  group_name |-> GroupName(Val(f.args).group_id, Val(cache.groups)),
                  created_after |-> f.created_after,
                  created_before |-> f.created_before],
     date_range |-> DateRange(f)]

StatsResult(f) ==
    [success |-> TRUE,
     stats |-> TicketStats(Records(f.all_tickets), Val(f.lookup).agents),
     filters |-> [group_id |-> Val(f.args).group_id,
                  group_name |-> GroupName(Val(f.args).group_id, Val(f.lookup).groups),
                  created_after |-> f.created_after,
                  created_before |-> f.created_before],
     date_range |-> DateRange(f)]

WorkloadResult(f) ==
    [success |-> TRUE,
     agents |-> WorkloadAgents(Records(f.all_tickets), Val(f.lookup).agents),
     date_range |-> DateRange(f),
     group_name |-> GroupName(Val(f.args).group_id, Val(f.lookup).groups)]

TeamResult(f) ==
    [success |-> TRUE,
     comparison |-> f.comparison_results,
     date_range |-> DateRange(f),
     summary |-> TeamSummary(f.total_tickets_all_groups, f.total_closure_rates)]

\* the tickets request of the first page of a walk
StartWalk(f) == [f EXCEPT !.pc = "tickets", !.page = 1, !.all_tickets = <<>>]

\* get_team_comparison after the walk of group group_ids[group_index]: the group's
\* entry, then the walk of the next group or the return
TeamAfterGroup(f) ==
    LET group_ids == Val(Val(f.args).group_ids)
        group_id == group_ids[f.group_index]
        records == Records(f.all_tickets)
        g == [f EXCEPT
                !.comparison_results =
                    Append(@, GroupComparison(group_id, records, Val(f.lookup).agents,
                                              Val(f.lookup).groups)),
                !.total_tickets_all_groups = @ + Len(records),
                !.total_closure_rates = Append(@, ClosureRate(records))]
    IN  IF f.group_index < Len(group_ids)
        THEN StartWalk([g EXCEPT !.group_index = f.group_index + 1])
        ELSE [g EXCEPT !.pc = "done", !.result = Some(TeamResult(g))]

\* the code after the walk
AfterWalk(f) ==
    CASE f.op = "get_ticket_stats" ->
            [f EXCEPT !.pc = "done", !.result = Some(StatsResult(f))]
      [] f.op = "get_agent_workload" ->
            [f EXCEPT !.pc = "done", !.result = Some(WorkloadResult(f))]
      [] f.op = "get_team_comparison" -> TeamAfterGroup(f)

\* the body of `while True` of the three aggregates, from the response on
DrainStep(f, resp) ==
    IF resp.kind # "ok" THEN WalkFails(f, resp.kind, "fetch tickets")
    ELSE LET tickets == resp.records
             all == f.all_tickets \o tickets
         IN  IF tickets = <<>> THEN AfterWalk(f)
             ELSE IF LastPage(tickets, parse_link_header(resp.link))
             THEN AfterWalk([f EXCEPT !.all_tickets = all])
             ELSE [f EXCEPT !.all_tickets = all, !.page = f.page + 1]

\* the aggregate after `lookup_result = await get_agent_lookup()`
AfterLookup(f, lookup_result) ==
    IF ~lookup_result.success
    THEN [f EXCEPT !.pc = "done",
            !.result = Some([success |-> FALSE,
                             error |-> "Failed to fetch agent/group lookup",
                             details |-> lookup_result])]
    ELSE StartWalk([f EXCEPT
            !.lookup = Some([agents |-> lookup_result.agents,
                             groups |-> lookup_result.groups]),
            !.group_index = IF f.op = "get_team_comparison" THEN 1 ELSE 0])

(***************************************************************************)
(* get_agent_lookup                                                        *)
(***************************************************************************)
\* the return of get_agent_lookup: to its caller, an aggregate or the client
LookupDone(f, lookup_result) ==
    IF f.op = "get_agent_lookup"
    THEN [f EXCEPT !.pc = "done", !.result = Some(lookup_result)]
    ELSE AfterLookup(f, lookup_result)

\* the three fields are set
CacheFilled(c) == ~IsNone(c.timestamp) /\ ~IsNone(c.agents) /\ ~IsNone(c.groups)

\* the test with <= for <
CacheFreshInclusive(c, now) == CacheFilled(c) /\ now - Val(c.timestamp) <= CacheTtl

\* the stored directory is served: cache_age < cache_ttl
CacheFresh(c, now) == CacheFilled(c) /\ now - Val(c.timestamp) < CacheTtl

CachedResult(c, now) ==
    [success |-> TRUE, agents |-> Val(c.agents), groups |-> Val(c.groups),
     cached_at |-> Val(c.timestamp), ttl_seconds |-> CacheTtl,
     cache_age_seconds |-> now - Val(c.timestamp)]

RefreshedResult(f) ==
    [success |-> TRUE, agents |-> Val(f.agents_dict), groups |-> Val(f.groups_dict),
     cached_at |-> Val(f.now), ttl_seconds |-> CacheTtl, cache_age_seconds |-> 0]

\* get_agent_lookup up to its first await, or to its return on a fresh cache
LookupEnter(f) ==
    IF CacheFresh(cache, clock)
    THEN LookupDone([f EXCEPT !.now = Some(clock)], CachedResult(cache, clock))
    ELSE [f EXCEPT !.now = Some(clock), !.agents_dict = Some(EmptyDict),
                   !.groups_dict = Some(EmptyDict), !.pc = "agents", !.page = 1]

\* the agents loop from the response on
AgentsStep(f, resp) ==
    IF resp.kind # "ok"
    THEN LookupDone(f, FailureResult(resp.kind, "fetch agents"))
    ELSE LET g == [f EXCEPT !.agents_dict = Some(AddAgents(Val(@), resp.records))]
             pagination_info == parse_link_header(resp.link)
         IN  IF NoNext(pagination_info) THEN [g EXCEPT !.pc = "groups", !.page = 1]
             ELSE [g EXCEPT !.page = Val(pagination_info["next"])]

\* the cache update cut short after its first assignment
CacheUpdateAgentsOnly(f) == [cache EXCEPT !.agents = f.agents_dict]

\* the cache update that keeps the newer of the two timestamps
CacheUpdateIfNewer(f) ==
    IF CacheFilled(cache) /\ Val(cache.timestamp) > Val(f.now) THEN cache
    ELSE [agents |-> f.agents_dict, groups |-> f.groups_dict, timestamp |-> f.now]

\* _lookup_cache["agents"], ["groups"], ["timestamp"] = agents_dict, groups_dict, now
CacheUpdate(f) ==
    [agents |-> f.agents_dict, groups |-> f.groups_dict, timestamp |-> f.now]

\* the cache is never written
EndsRefreshNever(resp) == FALSE

\* the cache is written whatever the response
EndsRefreshAlways(resp) == TRUE

\* TRUE when this response ends the groups loop, and with it the refresh
EndsRefresh(resp) == resp.kind = "ok" /\ NoNext(parse_link_header(resp.link))

\* the frame once the groups of a page are in groups_dict
WithGroups(f, records) == [f EXCEPT !.groups_dict = Some(AddGroups(Val(@), records))]

\* the groups loop from the response on
GroupsStep(f, resp) ==
    IF resp.kind # "ok"
    THEN LookupDone(f, FailureResult(resp.kind, "fetch groups"))
    ELSE LET g == WithGroups(f, resp.records)
             pagination_info == parse_link_header(resp.link)
         IN  IF NoNext(pagination_info) THEN LookupDone(g, RefreshedResult(g))
             ELSE [g EXCEPT !.page = Val(pagination_info["next"])]

\* what the server may answer to page p of a directory of n records
DirectoryResponses(n, p) ==
    { FailResponse(k) : k \in FailureKinds } \cup { OkResponse(n, p, backend.link) }

CallLookup(t) ==
    /\ task[t].pc = "idle"
    /\ LET f == LookupEnter([IdleFrame EXCEPT !.op = "get_agent_lookup"])
       IN  /\ task' = [task EXCEPT ![t] = f]
           /\ issued' = [issued EXCEPT ![t] = Issues(f)]
    /\ UNCHANGED <<cache, clock, backend, refreshed, pure>>

AgentsResponse(t) ==
    /\ task[t].pc = "agents"
    /\ \E resp \in DirectoryResponses(backend.agents, task[t].page) :
         LET f == AgentsStep(task[t], resp)
         IN  /\ task' = [task EXCEPT ![t] = f]
             /\ issued' = [issued EXCEPT ![t] = Answered(@, resp) \o Issues(f)]
    /\ UNCHANGED <<cache, clock, backend, refreshed, pure>>

GroupsResponse(t) ==
    /\ task[t].pc = "groups"
    /\ \E resp \in DirectoryResponses(backend.groups, task[t].page) :
         LET f == GroupsStep(task[t], resp)
             g == WithGroups(task[t], resp.records)
         IN  /\ task' = [task EXCEPT ![t] = f]
             /\ issued' = [issued EXCEPT ![t] = Answered(@, resp) \o Issues(f)]
             /\ cache' = IF EndsRefresh(resp) THEN CacheUpdate(g) ELSE cache
             /\ refreshed' = IF EndsRefresh(resp)
                             THEN Some([agents |-> g.agents_dict, groups |-> g.groups_dict,
                                        timestamp |-> g.now, by |-> t])
                             ELSE refreshed
    /\ UNCHANGED <<clock, backend, pure>>

\* the ticket walk of an aggregate
TicketsResponse(t) ==
    /\ task[t].pc = "tickets"
    /\ task[t].op # "search_tickets_all"
    /\ \E resp \in { FailResponse(k) : k \in FailureKinds }
                   \cup { OkResponse(task[t].coll[Max(task[t].group_index, 1)],
                                     task[t].page, backend.link) } :
         LET f == DrainStep(task[t], resp)
         IN  /\ task' = [task EXCEPT ![t] = f]
             /\ issued' = [issued EXCEPT ![t] = Answered(@, resp) \o Issues(f)]
    /\ UNCHANGED <<cache, clock, backend, refreshed, pure>>

(***************************************************************************)
(* _parse_period.  A period is the tuple of its characters.                *)
(***************************************************************************)
Digits == {"0", "1", "2", "3", "4", "5", "6", "7", "8", "9"}

DigitValue(c) ==
    CASE c = "0" -> 0 [] c = "1" -> 1 [] c = "2" -> 2 [] c = "3" -> 3 [] c = "4" -> 4
      [] c = "5" -> 5 [] c = "6" -> 6 [] c = "7" -> 7 [] c = "8" -> 8 [] c = "9" -> 9

RECURSIVE StripLeft(_)
StripLeft(chars) ==
    IF chars # <<>> /\ Head(chars) = " " THEN StripLeft(Tail(chars)) ELSE chars

RECURSIVE StripRight(_)
StripRight(chars) ==
    IF chars # <<>> /\ chars[Len(chars)] = " "
    THEN StripRight(SubSeq(chars, 1, Len(chars) - 1)) ELSE chars

RECURSIVE DigitsValue(_, _)
DigitsValue(chars, acc) ==
    IF chars = <<>> THEN acc
    ELSE DigitsValue(Tail(chars), 10 * acc + DigitValue(Head(chars)))

\* int(text): surrounding blanks and one sign are accepted; None is ValueError
ParseInt(chars) ==
    LET body == StripRight(StripLeft(chars))
        signed == body # <<>> /\ Head(body) \in {"-", "+"}
        digits == IF signed THEN Tail(body) ELSE body
    IN  IF digits # <<>> /\ \A i \in 1..Len(digits) : digits[i] \in Digits
        THEN Some((IF signed /\ Head(body) = "-" THEN -1 ELSE 1) * DigitsValue(digits, 0))
        ELSE None

SecondsPerDay == 86400
DefaultDays == 30

\* _parse_period(period): the start date, or the exception raised.  period is None
\* (the argument may be omitted as None) or Some(characters).
_parse_period(period, now) ==
    IF IsNone(period) THEN [raised |-> "AttributeError", value |-> 0]
    ELSE LET chars == Val(period)
         IN  IF chars # <<>> /\ chars[Len(chars)] = "d"
             THEN LET days == ParseInt(SubSeq(chars, 1, Len(chars) - 1))
                  IN  IF IsNone(days) THEN [raised |-> "ValueError", value |-> 0]
                      ELSE [raised |-> "no", value |-> now - Val(days) * SecondsPerDay]
             ELSE [raised |-> "ValueError", value |-> 0]

(***************************************************************************)
(* The aggregates, from the call to the first await                        *)
(***************************************************************************)
CallFrame(op, args, coll) ==
    [IdleFrame EXCEPT !.op = op, !.args = Some(args), !.coll = coll,
                      !.created_after = args.created_after,
                      !.created_before = args.created_before]

Fails(f, message) == [f EXCEPT !.pc = "done", !.result = Some(ValidationFailure(message))]

\* get_ticket_stats up to its first await or return
StatsEnter(f) ==
    IF /\ IsNone(Val(f.args).group_id)
       /\ IsNone(Val(f.args).created_after)
       /\ IsNone(Val(f.args).created_before)
    THEN Fails(f, "At least one filter parameter must be provided")
    ELSE LookupEnter(f)

\* get_agent_workload up to its first await, return or exception
WorkloadEnter(f) ==
    IF IsNone(Val(f.args).agent_id) /\ IsNone(Val(f.args).group_id)
    THEN Fails(f, "Either agent_id or group_id must be provided")
    ELSE LET parsed == _parse_period(Val(f.args).period, clock)
             needs == IsNone(f.created_after)
         IN  IF needs /\ parsed.raised = "ValueError"
             THEN Fails(f, "Invalid period format")
             ELSE IF needs /\ parsed.raised # "no"
             THEN [f EXCEPT !.pc = "raised", !.result = Some([raised |-> parsed.raised])]
             ELSE LookupEnter([f EXCEPT
                     !.created_after = IF needs THEN Some(parsed.value) ELSE @,
                     !.created_before = IF IsNone(@) THEN Some(clock) ELSE @])

MinGroups == 2
MaxGroups == 10

\* get_team_comparison up to its first await or return
TeamEnter(f) ==
    IF IsNone(Val(f.args).group_ids) \/ Len(Val(Val(f.args).group_ids)) < MinGroups
    THEN Fails(f, "At least 2 group_ids must be provided for comparison")
    ELSE IF Len(Val(Val(f.args).group_ids)) > MaxGroups
    THEN Fails(f, "Maximum 10 groups can be compared at once")
    ELSE LookupEnter([f EXCEPT
            !.created_after = IF IsNone(@) THEN Some(clock - DefaultDays * SecondsPerDay)
                              ELSE @,
            !.created_before = IF IsNone(@) THEN Some(clock) ELSE @])

CallStats(t, group_id, created_after, created_before, coll) ==
    /\ task[t].pc = "idle"
    /\ LET f == StatsEnter(CallFrame("get_ticket_stats",
                    [group_id |-> group_id, created_after |-> created_after,
                     created_before |-> created_before], coll))
       IN  /\ task' = [task EXCEPT ![t] = f]
           /\ issued' = [issued EXCEPT ![t] = Issues(f)]
    /\ UNCHANGED <<cache, clock, backend, refreshed, pure>>

CallWorkload(t, agent_id, group_id, period, created_after, created_before, coll) ==
    /\ task[t].pc = "idle"
    /\ LET f == WorkloadEnter(CallFrame("get_agent_workload",
                    [agent_id |-> agent_id, group_id |-> group_id, period |-> period,
                     created_after |-> created_after,
                     created_before |-> created_before], coll))
       IN  /\ task' = [task EXCEPT ![t] = f]
           /\ issued' = [issued EXCEPT ![t] = Issues(f)]
    /\ UNCHANGED <<cache, clock, backend, refreshed, pure>>

CallTeam(t, group_ids, created_after, created_before, coll) ==
    /\ task[t].pc = "idle"
    /\ LET f == TeamEnter(CallFrame("get_team_comparison",
                    [group_ids |-> group_ids, created_after |-> created_after,
                     created_before |-> created_before], coll))
       IN  /\ task' = [task EXCEPT ![t] = f]
           /\ issued' = [issued EXCEPT ![t] = Issues(f)]
    /\ UNCHANGED <<cache, clock, backend, refreshed, pure>>

(***************************************************************************)
(* The environment: time passes, the account's directories change          *)
(***************************************************************************)
TickSteps == {CacheTtl - 1, CacheTtl}

Tick ==
    /\ \E d \in TickSteps : clock + d <= MaxClock /\ clock' = clock + d
    /\ UNCHANGED <<task, cache, backend, issued, refreshed, pure>>

AgentCounts == {1, PageSize + 1, 2 * PageSize + 1}
GroupCounts == {0, PageSize + 1}

\* agents join the account
BackendChange ==
    /\ \E a \in AgentCounts :
         /\ a > backend.agents
         /\ backend' = [backend EXCEPT !.agents = a]
    /\ UNCHANGED <<task, cache, clock, issued, refreshed, pure>>

(***************************************************************************)
(* The server with one client, which calls any of the five operations, one *)
(* call after the other, while time passes.                                *)
(***************************************************************************)
SmallCounts == {0, PageSize + 12}
SmallCaps == {0, PageSize + 1, DefaultMaxResults}
OptionalIds == {None, Some(1)}
OptionalDates == {None, Some(0)}
PeriodInputs ==
    {None, Some(<<>>), Some(<<"7", "d">>), Some(<<"-", "7", "d">>), Some(<<"7", "h">>),
     Some(<<"x", "d">>), Some(<<"d">>)}
GroupIdInputs ==
    {None, Some(<<>>), Some(<<1>>), Some(<<2, 1>>), Some(<<1, 2, 4>>),
     Some([i \in 1..MaxGroups |-> i]), Some([i \in 1..(MaxGroups + 1) |-> i])}
\* the number of tickets of each compared group
GroupColls == { [i \in 1..(MaxGroups + 1) |-> IF i = 1 THEN a ELSE b] :
                    a \in {0, PageSize + 1}, b \in {0, 12} }

Init ==
    /\ task = [t \in Tasks |-> IdleFrame]
    /\ cache = EmptyCache
    /\ clock = 0
    /\ backend \in [agents : {PageSize + 1}, groups : {PageSize + 1}, link : BOOLEAN]
    /\ issued = [t \in Tasks |-> <<>>]
    /\ refreshed = None
    /\ pure = None

InitLookup ==
    /\ task = [t \in Tasks |-> IdleFrame]
    /\ cache = EmptyCache
    /\ clock = 0
    /\ backend \in [agents : AgentCounts, groups : GroupCounts, link : BOOLEAN]
    /\ issued = [t \in Tasks |-> <<>>]
    /\ refreshed = None
    /\ pure = None

Next ==
    \/ CallLookup(1)
    \/ AgentsResponse(1)
    \/ GroupsResponse(1)
    \/ \E g \in OptionalIds, a \in OptionalDates, b \in OptionalDates, n \in SmallCounts :
          CallStats(1, g, a, b, Some(n))
    \/ \E ag \in OptionalIds, g \in OptionalIds, p \in PeriodInputs,
          a \in OptionalDates, n \in SmallCounts :
          CallWorkload(1, ag, g, p, a, None, Some(n))
    \/ \E gs \in GroupIdInputs, a \in OptionalDates, c \in GroupColls :
          CallTeam(1, gs, a, None, c)
    \/ \E k \in SmallCaps, n \in SmallCounts : CallSearch(1, k, Some(n))
    \/ TicketsResponse(1)
    \/ SearchResponse(1)
    \/ Return(1)
    \/ Tick

Spec == Init /\ [][Next]_vars

(***************************************************************************)
(* The lookup cache with two concurrent clients of get_agent_lookup, while *)
(* time passes and the account's directories change.                       *)
(***************************************************************************)
NextLookup ==
    \/ \E t \in Tasks : CallLookup(t)
    \/ \E t \in Tasks : AgentsResponse(t)
    \/ \E t \in Tasks : GroupsResponse(t)
    \/ \E t \in Tasks : Return(t)
    \/ Tick
    \/ BackendChange

SpecLookup == InitLookup /\ [][NextLookup]_vars


(***************************************************************************)
(* The walker alone: one caller of search_tickets_all, against collections *)
(* of the sizes TicketCounts and against a server that pages as it likes.  *)
(***************************************************************************)
TicketCounts == {0, 1, 12, 29, 30, 31, 50, 60, 72, 90, 500, 999, 1000, 1001, 1020, 1200}
CapInputs == {-1, 0, 1, 29, 30, 31, 50, 60, 72, 500, 999, 1000, 1001, 1200, 1500}
AdvCaps == {1, 3, 30, 31, 50, 72}

InitWalk ==
    /\ task = [t \in Tasks |-> IdleFrame]
    /\ cache = EmptyCache
    /\ clock = 0
    /\ backend \in [agents : {0}, groups : {0}, link : BOOLEAN]
    /\ issued = [t \in Tasks |-> <<>>]
    /\ refreshed = None
    /\ pure = None

NextWalk ==
    \/ \E k \in CapInputs, n \in TicketCounts : CallSearch(1, k, Some(n))
    \/ \E k \in AdvCaps : CallSearch(1, k, None)
    \/ SearchResponse(1)
    \/ Return(1)

SpecWalk == InitWalk /\ [][NextWalk]_vars

\* every request of the walker is answered: `await client.get()` returns or raises
SpecWalkFair == SpecWalk /\ WF_vars(SearchResponse(1))


(***************************************************************************)
(* Claims about the walker (under SpecWalk)                                *)
(***************************************************************************)
\* a successful search_tickets_all result of task t
SearchSucceeded(t) ==
    /\ task[t].pc = "done"
    /\ task[t].op = "search_tickets_all"
    /\ Val(task[t].result).success

\* the first n records of a collection, as the API serves them
FirstRecords(n) == [i \in 1..n |-> i]

\* C1 as stated: with K = max_results as passed and M the size of the collection,
\* a successful walk returns exactly K records and truncated = TRUE when M > K,
\* and exactly M records and truncated = FALSE when M <= K.
C1_CapLawAsStated ==
    \A t \in Tasks :
        (SearchSucceeded(t) /\ ~IsNone(task[t].coll)) =>
            LET K == Val(task[t].given)
                M == Val(task[t].coll)
                r == Val(task[t].result)
            IN  /\ (M > K) => (Len(r.tickets) = K /\ r.truncated)
                /\ (M <= K) => (Len(r.tickets) = M /\ ~r.truncated)

\* C1 amended: with K' = min(max_results, 1000), a successful walk returns exactly
\* the first K' records and truncated = TRUE when M >= K', and all M records and
\* truncated = FALSE when M < K'.
C1_CapLaw ==
    \A t \in Tasks :
        (SearchSucceeded(t) /\ ~IsNone(task[t].coll)) =>
            LET K == Min(Val(task[t].given), MaxResultsCeiling)
                M == Val(task[t].coll)
                r == Val(task[t].result)
            IN  /\ (M >= K) => (r.tickets = FirstRecords(K) /\ r.truncated)
                /\ (M < K) => (r.tickets = FirstRecords(M) /\ ~r.truncated)

\* a walk cut inside a page: the collection is larger than the cap
C1_Witness ==
    \E t \in Tasks :
        /\ SearchSucceeded(t) /\ ~IsNone(task[t].coll)
        /\ Val(task[t].coll) > Val(task[t].given)
        /\ Val(task[t].given) % PageSize # 0
        /\ Val(task[t].result).truncated
        /\ Len(Val(task[t].result).tickets) = Val(task[t].given)

\* C2: on every successful search_tickets_all result, whatever pages the API
\* returned, total_fetched is the number of tickets returned, at most max_results
\* as passed and at most 1000.
C2_TotalFetched ==
    \A t \in Tasks :
        SearchSucceeded(t) =>
            LET r == Val(task[t].result)
            IN  /\ r.total_fetched = Len(r.tickets)
                /\ r.total_fetched <= Val(task[t].given)
                /\ r.total_fetched <= MaxResultsCeiling

\* a caller that asked for more than 1000 and got exactly 1000
C2_Witness ==
    \E t \in Tasks :
        /\ SearchSucceeded(t)
        /\ Val(task[t].given) > MaxResultsCeiling
        /\ Val(task[t].result).total_fetched = MaxResultsCeiling


(***************************************************************************)
(* The folds alone: a record set of at most MaxTickets tickets drawn from  *)
(* SampleTickets and a directory, folded by one of the three aggregates.   *)
(***************************************************************************)
RECURSIVE SeqsUpTo(_, _)
SeqsUpTo(S, n) ==
    IF n = 0 THEN {<<>>}
    ELSE LET shorter == SeqsUpTo(S, n - 1)
         IN  shorter \cup { Append(q, x) : q \in {r \in shorter : Len(r) = n - 1}, x \in S }

SampleDirectories ==
    { [agents |-> AddAgents(EmptyDict, ids), groups |-> AddGroups(EmptyDict, ids)] :
        ids \in {<<>>, <<1, 2>>} }

InitFold ==
    /\ task = [t \in Tasks |-> IdleFrame]
    /\ cache = EmptyCache
    /\ clock = 0
    /\ backend \in [agents : {0}, groups : {0}, link : {FALSE}]
    /\ issued = [t \in Tasks |-> <<>>]
    /\ refreshed = None
    /\ \E tickets \in SeqsUpTo(SampleTickets, MaxTickets), dir \in SampleDirectories :
         pure = Some([fn |-> "none", all_tickets |-> tickets, lookup |-> dir, out |-> None])

Apply(fn, out) ==
    /\ ~IsNone(pure)
    /\ Val(pure).fn = "none"
    /\ pure' = Some([Val(pure) EXCEPT !.fn = fn, !.out = Some(out)])
    /\ UNCHANGED <<task, cache, clock, backend, issued, refreshed>>

FoldStats ==
    Apply("get_ticket_stats", TicketStats(Val(pure).all_tickets, Val(pure).lookup.agents))

FoldWorkload ==
    Apply("get_agent_workload",
          WorkloadAgents(Val(pure).all_tickets, Val(pure).lookup.agents))

FoldTeam ==
    Apply("get_team_comparison",
          GroupComparison(1, Val(pure).all_tickets, Val(pure).lookup.agents,
                          Val(pure).lookup.groups))

\* ten tickets of which six are resolved, and five open tickets
TenSixResolved == [i \in 1..10 |-> IF i <= 6 THEN SampleTicketSeq[2] ELSE SampleTicketSeq[1]]
FiveOpen == [i \in 1..5 |-> SampleTicketSeq[1]]

\* the loop `for group_id in group_ids` of get_team_comparison over the tickets
\* collected for each group, and the summary after it
TeamFold(group_tickets, lookup) ==
    [comparison |-> [i \in 1..Len(group_tickets) |->
                        GroupComparison(i, group_tickets[i], lookup.agents, lookup.groups)],
     summary |-> TeamSummary(
                    SumSeq([i \in 1..Len(group_tickets) |-> Len(group_tickets[i])]),
                    [i \in 1..Len(group_tickets) |-> ClosureRate(group_tickets[i])])]

\* two groups compared
FoldSummary ==
    \E a \in {Val(pure).all_tickets, TenSixResolved},
       b \in {Val(pure).all_tickets, <<>>, FiveOpen} :
        Apply("summary", TeamFold(<<a, b>>, Val(pure).lookup))

\* open tickets of six more responders, the second of them met twice
CrowdIds == <<9, 3, 4, 3, 5, 6, 8>>
Crowd == [i \in 1..Len(CrowdIds) |->
            [SampleTicketSeq[1] EXCEPT !.responder_id = Some(CrowdIds[i])]]

\* the entry of a group whose records are followed by those of the crowd
FoldCrowd ==
    LET tickets == Val(pure).all_tickets \o Crowd
    IN  Apply("crowd", [tickets |-> tickets,
                        entry |-> GroupComparison(1, tickets, Val(pure).lookup.agents,
                                                  Val(pure).lookup.groups)])

NextFold == FoldStats \/ FoldWorkload \/ FoldTeam \/ FoldSummary \/ FoldCrowd

SpecFold == InitFold /\ [][NextFold]_vars

Folded(fn) == ~IsNone(pure) /\ Val(pure).fn = fn

(***************************************************************************)
(* Claims about the folds (under SpecFold)                                 *)
(***************************************************************************)
\* C8: for every record set folded by get_ticket_stats, the counts of by_status,
\* of by_priority and of by_type each sum to total_tickets.
C8_StatsFoldLaw ==
    Folded("get_ticket_stats") =>
        LET stats == Val(Val(pure).out)
        IN  /\ stats.total_tickets = Len(Val(pure).all_tickets)
            /\ SumValues(stats.by_status) = stats.total_tickets
            /\ SumValues(stats.by_priority) = stats.total_tickets
            /\ SumValues(stats.by_type) = stats.total_tickets

\* a fold of several records that share a label, one of them without status,
\* priority and type
C8_Witness ==
    /\ Folded("get_ticket_stats")
    /\ Len(Val(pure).all_tickets) = MaxTickets
    /\ \E i \in 1..MaxTickets : IsNone(Val(pure).all_tickets[i].status)
    /\ \E k \in DOMAIN Val(Val(pure).out).by_status : Val(Val(pure).out).by_status[k] >= 2

\* avg_resolution_hours of an entry is None exactly when its resolution-time list
\* is empty, and is otherwise the mean of the list (as round(mean, 2) reports it)
AverageLaw(entry) ==
    /\ IsNone(entry.avg_resolution_hours) <=> (entry.raw_resolution_times = <<>>)
    /\ ~IsNone(entry.avg_resolution_hours) =>
          Val(entry.avg_resolution_hours) =
             RoundHours(Frac(SumSeq(entry.raw_resolution_times),
                             Len(entry.raw_resolution_times)))

\* C10: the workload average law, for every agent of a get_agent_workload result
\* and for the group of a get_team_comparison entry, a mean of zero included.
C10_AverageLaw ==
    /\ Folded("get_agent_workload") =>
          \A i \in 1..Len(Val(Val(pure).out)) : AverageLaw(Val(Val(pure).out)[i])
    /\ Folded("get_team_comparison") => AverageLaw(Val(Val(pure).out))

(***************************************************************************)
(* Claims about the walks and the validation (under Spec)                  *)
(***************************************************************************)
\* the fields of a result that carry collected records or what is derived from them
RecordFields == {"tickets", "stats", "agents", "comparison", "summary"}

FailedFetch(entry) == entry.endpoint = "tickets" /\ entry.answer \in FailureKinds

\* C3: a walk is all-or-nothing.  A failed page fetch of a ticket walk is the last
\* request of its call (no further request, no retry), the call has returned a
\* failure result that carries none of the collected records, and no page of a
\* walk is requested twice.
C3_AllOrNothing ==
    \A t \in Tasks :
        LET log == issued[t]
        IN  /\ \A i \in 1..Len(log) :
                  FailedFetch(log[i]) =>
                      /\ i = Len(log)
                      /\ task[t].pc = "done"
                      /\ ~Val(task[t].result).success
                      /\ DOMAIN Val(task[t].result) \cap RecordFields = {}
            /\ \A i, j \in 1..Len(log) :
                  (i < j /\ log[i].endpoint = "tickets" /\ log[j].endpoint = "tickets")
                      => <<log[i].group_index, log[i].page>>
                            # <<log[j].group_index, log[j].page>>

\* a walk that fails on its second page, a full first page collected
C3_Witness ==
    \E t \in Tasks :
        /\ task[t].pc = "done"
        /\ issued[t] # <<>>
        /\ FailedFetch(issued[t][Len(issued[t])])
        /\ issued[t][Len(issued[t])].page = 2
        /\ Len(task[t].all_tickets) = PageSize
        /\ task[t].op = "get_ticket_stats"

\* a successful call of get_agent_lookup that refreshed
Refreshed(t) ==
    /\ task[t].op = "get_agent_lookup"
    /\ task[t].pc = "done"
    /\ Val(task[t].result).success
    /\ issued[t] # <<>>

\* C6: a successful refresh yields complete directories: the returned and the
\* cached directory hold an entry for every agent and every group of the account,
\* whether or not the endpoint sends a Link header.
C6_CompleteDirectories ==
    \A t \in Tasks :
        Refreshed(t) =>
            /\ DOMAIN Val(task[t].result).agents = 1..backend.agents
            /\ DOMAIN Val(task[t].result).groups = 1..backend.groups
            /\ DOMAIN Val(cache.agents) = 1..backend.agents
            /\ DOMAIN Val(cache.groups) = 1..backend.groups

\* a period of the form <N>d, N a whole number of days
WellFormedPeriod(period) ==
    /\ ~IsNone(period)
    /\ Len(Val(period)) >= 2
    /\ Val(period)[Len(Val(period))] = "d"
    /\ \A i \in 1..(Len(Val(period)) - 1) : Val(period)[i] \in Digits

\* the calls C9 names
InvalidCall(f) ==
    CASE f.op = "get_ticket_stats" ->
            /\ IsNone(Val(f.args).group_id)
            /\ IsNone(Val(f.args).created_after)
            /\ IsNone(Val(f.args).created_before)
      [] f.op = "get_agent_workload" ->
            \/ IsNone(Val(f.args).agent_id) /\ IsNone(Val(f.args).group_id)
            \/ /\ IsNone(Val(f.args).created_after)
               /\ ~IsNone(Val(f.args).period)
               /\ ~WellFormedPeriod(Val(f.args).period)
      [] f.op = "get_team_comparison" ->
            \/ IsNone(Val(f.args).group_ids)
            \/ Len(Val(Val(f.args).group_ids)) < 2
            \/ Len(Val(Val(f.args).group_ids)) > 10
      [] f.op = "search_tickets_all" -> Val(f.given) < 1
      [] OTHER -> FALSE

\* C9: every validation failure is reported before any network call: a call with
\* invalid arguments has returned a failure result and has issued no request.
C9_ValidationBeforeNetwork ==
    \A t \in Tasks :
        (task[t].pc # "idle" /\ InvalidCall(task[t])) =>
            /\ task[t].pc = "done"
            /\ ~Val(task[t].result).success
            /\ issued[t] = <<>>

(***************************************************************************)
(* Claims about the lookup cache (under SpecLookup)                        *)
(***************************************************************************)
\* C4: get_agent_lookup serves from the cache exactly when a directory is stored
\* and its age is strictly less than 300 seconds.  Then it returns the stored
\* agents and groups, reports the true age, issues no request and leaves the
\* cache unchanged; otherwise it begins a refresh with the first agents request.
C4_CacheHitLaw ==
    [][\A t \in Tasks :
          (task[t].pc = "idle" /\ task'[t].op = "get_agent_lookup") =>
              IF CacheFilled(cache) /\ clock - Val(cache.timestamp) < 300
              THEN /\ task'[t].pc = "done"
                   /\ Val(task'[t].result).success
                   /\ Val(task'[t].result).agents = Val(cache.agents)
                   /\ Val(task'[t].result).groups = Val(cache.groups)
                   /\ Val(task'[t].result).cache_age_seconds
                         = clock - Val(cache.timestamp)
                   /\ issued'[t] = <<>>
                   /\ cache' = cache
              ELSE /\ task'[t].pc = "agents"
                   /\ issued'[t] = <<Request("agents", 1, 0)>>
                   /\ cache' = cache]_vars

\* a call served from a directory stored 299 seconds before
C4_Witness ==
    \E t \in Tasks :
        /\ task[t].op = "get_agent_lookup"
        /\ task[t].pc = "done"
        /\ issued[t] = <<>>
        /\ Val(task[t].result).success
        /\ Val(task[t].result).cache_age_seconds = 299
        /\ Val(task[t].result).agents = Val(cache.agents)

\* C5: a refresh whose agent drain or group drain fails returns a failure, and no
\* step of a call other than the one that returns a successful refresh changes
\* the cache: agents, groups and timestamp stay what they were.
C5_FailedRefreshKeepsCache ==
    [][\A t \in Tasks :
          (task[t].pc \in {"agents", "groups"} /\ task'[t] # task[t]) =>
              /\ issued'[t][Len(issued[t])].answer \in FailureKinds =>
                    /\ task'[t].pc = "done"
                    /\ ~Val(task'[t].result).success
                    /\ cache' = cache
              /\ ~(task'[t].pc = "done" /\ Val(task'[t].result).success) =>
                    cache' = cache]_vars

\* a refresh of a stale directory whose group drain failed after its agent drain:
\* the stale directory is still stored
C5_Witness ==
    \E t \in Tasks :
        /\ task[t].op = "get_agent_lookup"
        /\ task[t].pc = "done"
        /\ ~Val(task[t].result).success
        /\ issued[t][Len(issued[t])].endpoint = "groups"
        /\ issued[t][Len(issued[t])].answer \in FailureKinds
        /\ CacheFilled(cache)
        /\ Val(task[t].now) - Val(cache.timestamp) >= CacheTtl

\* C7: concurrent refreshes.  Each refreshing call returns the directories of its
\* own two drains, stamped with its own time; the cache is empty until a refresh
\* completes and holds from then on the agents, groups and timestamp of the
\* refresh that completed last.
C7_LastRefreshWins ==
    /\ IF IsNone(refreshed) THEN cache = EmptyCache
       ELSE /\ cache.agents = Val(refreshed).agents
            /\ cache.groups = Val(refreshed).groups
            /\ cache.timestamp = Val(refreshed).timestamp
    /\ \A t \in Tasks :
          Refreshed(t) =>
              /\ Val(task[t].result).agents = Val(task[t].agents_dict)
              /\ Val(task[t].result).groups = Val(task[t].groups_dict)
              /\ Val(task[t].result).cached_at = Val(task[t].now)
              /\ Val(task[t].result).cache_age_seconds = 0

\* two refreshes that overlapped (the second began while the cache was still
\* empty), with different directories; the one begun first completed last
C7_Witness ==
    /\ Refreshed(1) /\ Refreshed(2)
    /\ Val(task[1].now) < Val(task[2].now)
    /\ Val(task[1].result).agents # Val(task[2].result).agents
    /\ Val(refreshed).by = 1
    /\ cache.agents = Some(Val(task[1].result).agents)
    /\ cache.timestamp = task[1].now

(***************************************************************************)
(* Claims about get_team_comparison's rates (under SpecFold)               *)
(***************************************************************************)
\* (resolved + closed) / total of a comparison entry, 0 for a group without tickets
EntryRate(entry) ==
    IF entry.total_tickets > 0
    THEN Frac(entry.resolved_tickets + entry.closed_tickets, entry.total_tickets)
    ELSE Frac(0, 1)

\* C11: the closure_rate of a group is (resolved_tickets + closed_tickets) /
\* total_tickets (as round(rate, 3) reports it, in thousandths) when the group has
\* tickets and 0 when it has none; the division is never by zero and the rate
\* lies between 0 and 1.
C11_ClosureRate ==
    Folded("get_team_comparison") =>
        LET entry == Val(Val(pure).out)
        IN  /\ entry.total_tickets = Len(Val(pure).all_tickets)
            /\ entry.total_tickets > 0 =>
                  entry.closure_rate
                     = RoundHalfEven(1000 * (entry.resolved_tickets + entry.closed_tickets),
                                     entry.total_tickets)
            /\ entry.total_tickets = 0 => entry.closure_rate = 0
            /\ entry.closure_rate >= 0 /\ entry.closure_rate <= 1000

\* a group without tickets: the rate is 0
C11_Witness ==
    /\ Folded("get_team_comparison")
    /\ Val(pure).all_tickets = <<>>
    /\ Val(Val(pure).out).closure_rate = 0

\* C12: total_tickets_all_groups is the sum of the groups' total_tickets, and
\* average_closure_rate is the unweighted mean of the groups' closure rates
\* (as round(mean, 3) reports it, in thousandths): for two groups with rates
\* n1 / d1 and n2 / d2 it is (n1 * d2 + n2 * d1) / (2 * d1 * d2).
C12_Summary ==
    Folded("summary") =>
        LET out == Val(Val(pure).out)
            r1 == EntryRate(out.comparison[1])
            r2 == EntryRate(out.comparison[2])
        IN  /\ Len(out.comparison) = 2
            /\ out.summary.total_tickets_all_groups
                  = out.comparison[1].total_tickets + out.comparison[2].total_tickets
            /\ out.summary.average_closure_rate
                  = RoundHalfEven(1000 * (r1.num * r2.den + r2.num * r1.den),
                                  2 * r1.den * r2.den)

\* ten tickets with six resolved and five with none: 0.3, not the weighted 0.4
C12_Witness ==
    /\ Folded("summary")
    /\ Val(Val(pure).out).comparison[1].total_tickets = 10
    /\ Val(Val(pure).out).comparison[1].resolved_tickets = 6
    /\ Val(Val(pure).out).comparison[1].closed_tickets = 0
    /\ Val(Val(pure).out).comparison[2].total_tickets = 5
    /\ Val(Val(pure).out).comparison[2].resolved_tickets = 0
    /\ Val(Val(pure).out).comparison[2].closed_tickets = 0
    /\ Val(Val(pure).out).summary.total_tickets_all_groups = 15
    /\ Val(Val(pure).out).summary.average_closure_rate = 300

(***************************************************************************)
(* Claims about the aggregates' results (under Spec)                       *)
(***************************************************************************)
\* C13: get_team_comparison is all-or-nothing across groups.  When the fetch of
\* a page of the tickets of any compared group has failed, the call has returned
\* a failure result without comparison entries and without a summary, whatever
\* entries it had built for the groups before.
C13_TeamAllOrNothing ==
    \A t \in Tasks :
        (/\ task[t].op = "get_team_comparison"
         /\ \E i \in 1..Len(issued[t]) : FailedFetch(issued[t][i])) =>
            /\ task[t].pc = "done"
            /\ Val(task[t].result).success = FALSE
            /\ "comparison" \notin DOMAIN Val(task[t].result)
            /\ "summary" \notin DOMAIN Val(task[t].result)

\* the walk of the second group fails after the entry of the first group, of 31
\* tickets, was built
C13_Witness ==
    \E t \in Tasks :
        /\ task[t].op = "get_team_comparison"
        /\ task[t].pc = "done"
        /\ issued[t] # <<>>
        /\ FailedFetch(issued[t][Len(issued[t])])
        /\ issued[t][Len(issued[t])].group_index = 2
        /\ Len(task[t].comparison_results) = 1
        /\ task[t].comparison_results[1].total_tickets = PageSize + 1

(***************************************************************************)
(* Claims about anomalous records (under SpecFold)                         *)
(***************************************************************************)
KnownStatusIds == 2..7
KnownPriorityIds == 1..4

\* the text Python formats an optional id as
OptionalText(v) == IF IsNone(v) THEN "None" ELSE IdText(Val(v))

\* how many of the tickets satisfy P
CountOf(tickets, P(_)) == Cardinality({ i \in 1..Len(tickets) : P(tickets[i]) })

\* the count a counter holds under a label, 0 without the label
CountUnder(counter, label) == IF label \in DOMAIN counter THEN counter[label] ELSE 0

\* created_at and resolved_at (else updated_at) are both present, both parse, and
\* are both with or both without an offset
UsableStamps(ticket) ==
    LET resolved == IF ticket.resolved_at.form \in {"missing", "empty"}
                    THEN ticket.updated_at ELSE ticket.resolved_at
    IN  /\ ticket.created_at.form = "iso"
        /\ resolved.form = "iso"
        /\ ticket.created_at.aware = resolved.aware

Finished(ticket) == ticket.status \in {Some(4), Some(5)}

\* C14: data-shape anomalies never fail an aggregate.  Every fold of a record
\* set yields its result, in which a record with a missing or unknown status,
\* priority or type, or with an absent or unlisted responder, is counted under
\* the fallback label (Status-<id>, Priority-<id>, Unknown, Unassigned,
\* Agent-<id>), and a record whose timestamps are missing or do not parse is
\* left out of the resolution-time list and of nothing else.
C14_AnomaliesCounted ==
    LET tickets == Val(pure).all_tickets
        agents_lookup == Val(pure).lookup.agents
        out == Val(Val(pure).out)
    IN  /\ Folded("get_ticket_stats") =>
              /\ out.total_tickets = Len(tickets)
              /\ \A i \in 1..Len(tickets) :
                    LET ticket == tickets[i]
                    IN  /\ (IsNone(ticket.status) \/ Val(ticket.status) \notin KnownStatusIds)
                            => CountUnder(out.by_status,
                                          <<"Status-", OptionalText(ticket.status)>>)
                                  = CountOf(tickets, LAMBDA x : x.status = ticket.status)
                        /\ (IsNone(ticket.priority)
                               \/ Val(ticket.priority) \notin KnownPriorityIds)
                            => CountUnder(out.by_priority,
                                          <<"Priority-", OptionalText(ticket.priority)>>)
                                  = CountOf(tickets, LAMBDA x : x.priority = ticket.priority)
                        /\ ticket.type \in {None, Some(<<>>)}
                            => CountUnder(out.by_type, <<"Unknown">>)
                                  = CountOf(tickets, LAMBDA x : x.type \in {None, Some(<<>>)})
                        /\ ticket.responder_id \in {None, Some(0)}
                            => CountUnder(out.by_agent, <<"Unassigned">>)
                                  = CountOf(tickets,
                                            LAMBDA x : x.responder_id \in {None, Some(0)})
                        /\ (/\ ticket.responder_id \notin {None, Some(0)}
                            /\ Val(ticket.responder_id) \notin DOMAIN agents_lookup)
                            => CountUnder(out.by_agent,
                                          <<"Agent-", IdText(Val(ticket.responder_id))>>)
                                  = CountOf(tickets,
                                            LAMBDA x : x.responder_id = ticket.responder_id)
        /\ Folded("get_agent_workload") =>
              /\ \A i \in 1..Len(tickets) :
                    tickets[i].responder_id \notin {None, Some(0)} =>
                        \E k \in 1..Len(out) : out[k].agent_id = Val(tickets[i].responder_id)
              /\ \A k \in 1..Len(out) :
                    /\ out[k].tickets_assigned
                          = CountOf(tickets, LAMBDA x : x.responder_id = Some(out[k].agent_id))
                    /\ Len(out[k].resolution_times)
                          = CountOf(tickets,
                                    LAMBDA x : /\ x.responder_id = Some(out[k].agent_id)
                                               /\ Finished(x) /\ UsableStamps(x))
                    /\ out[k].agent_id \notin DOMAIN agents_lookup =>
                          /\ out[k].agent_name = <<"Agent-", IdText(out[k].agent_id)>>
                          /\ out[k].email = <<"unknown">>
        /\ Folded("get_team_comparison") =>
              /\ out.total_tickets = Len(tickets)
              /\ Len(out.raw_resolution_times)
                    = CountOf(tickets, LAMBDA x : Finished(x) /\ UsableStamps(x))

\* a fold of tickets with a missing status, an unknown priority, an empty type
\* and a responder outside the directory
C14_Witness ==
    /\ Folded("get_ticket_stats")
    /\ <<"Status-", "None">> \in DOMAIN Val(Val(pure).out).by_status
    /\ <<"Priority-", "9">> \in DOMAIN Val(Val(pure).out).by_priority
    /\ <<"Agent-", "7">> \in DOMAIN Val(Val(pure).out).by_agent
    /\ Val(Val(pure).out).by_type[<<"Unknown">>] = 2
    /\ Val(Val(pure).out).total_tickets = MaxTickets

(***************************************************************************)
(* Claims about the boundary of the operations (under Spec)                *)
(***************************************************************************)
\* C15: every operation returns a result with a success flag and never raises:
\* no call ends in an exception, whatever its arguments and whatever the server
\* answers.
C15_NeverRaises ==
    \A t \in Tasks :
        /\ task[t].pc # "raised"
        /\ task[t].pc = "done" => Val(task[t].result).success \in BOOLEAN

\* a call of get_agent_workload that names an agent or a group and gives no
\* created_after, so that its period decides the window
PeriodDecides(f) ==
    /\ f.op = "get_agent_workload"
    /\ ~(IsNone(Val(f.args).agent_id) /\ IsNone(Val(f.args).group_id))
    /\ IsNone(Val(f.args).created_after)
    /\ ~IsNone(Val(f.args).period)

\* C16: in get_agent_workload without created_after, a period string that is not
\* of the form <N>d is a validation failure: the call has returned a failure and
\* no date window was derived from the string.
C16_PeriodValidated ==
    \A t \in Tasks :
        (PeriodDecides(task[t]) /\ ~WellFormedPeriod(Val(task[t].args).period)) =>
            /\ task[t].pc = "done"
            /\ Val(task[t].result).success = FALSE
            /\ IsNone(task[t].created_after)

\* C17: get_agent_workload passes validation (goes on to the network) only when
\* exactly one of agent_id and group_id is supplied.
C17_ExactlyOneOf ==
    \A t \in Tasks :
        (task[t].op = "get_agent_workload" /\ issued[t] # <<>>) =>
            (IsNone(Val(task[t].args).agent_id) # IsNone(Val(task[t].args).group_id))

(***************************************************************************)
(* Claims about the order of the agent lists (under SpecFold)              *)
(***************************************************************************)
\* the responders of a record sequence: the ids that pass `if responder_id`
Responders(tickets) ==
    { Val(tickets[i].responder_id) :
        i \in { j \in 1..Len(tickets) : ~IsNone(tickets[j].responder_id)
                                         /\ Val(tickets[j].responder_id) # 0 } }

\* the position of the first record of a responder
FirstSeen(tickets, responder_id) ==
    CHOOSE i \in 1..Len(tickets) :
        /\ tickets[i].responder_id = Some(responder_id)
        /\ \A j \in 1..(i - 1) : tickets[j].responder_id # Some(responder_id)

\* the number of records of a responder
Assigned(tickets, responder_id) ==
    Cardinality({ i \in 1..Len(tickets) : tickets[i].responder_id = Some(responder_id) })

\* C22: the agents list of get_agent_workload has one entry per responder of the
\* collected records, is sorted by tickets_assigned in descending order, and two
\* agents with equal tickets_assigned appear in the order in which their
\* responder ids were first encountered in the record sequence.
C22_WorkloadOrder ==
    Folded("get_agent_workload") =>
        LET tickets == Val(pure).all_tickets
            agents == Val(Val(pure).out)
        IN  /\ { agents[i].agent_id : i \in 1..Len(agents) } = Responders(tickets)
            /\ Len(agents) = Cardinality(Responders(tickets))
            /\ \A i \in 1..Len(agents) :
                  agents[i].tickets_assigned = Assigned(tickets, agents[i].agent_id)
            /\ \A i, j \in 1..Len(agents) :
                  i < j =>
                     /\ agents[i].tickets_assigned >= agents[j].tickets_assigned
                     /\ agents[i].tickets_assigned = agents[j].tickets_assigned
                          => FirstSeen(tickets, agents[i].agent_id)
                               < FirstSeen(tickets, agents[j].agent_id)

\* a tie kept in encounter order after an agent with more tickets, met last
C22_Witness ==
    /\ Folded("get_agent_workload")
    /\ LET agents == Val(Val(pure).out)
       IN  /\ Len(agents) = 2
           /\ agents[1].tickets_assigned = 2
           /\ agents[2].tickets_assigned = 1
           /\ FirstSeen(Val(pure).all_tickets, agents[2].agent_id) = 1

\* two agents with one ticket each, the one with the larger id met first
C22_TieWitness ==
    /\ Folded("get_agent_workload")
    /\ LET agents == Val(Val(pure).out)
       IN  /\ Len(agents) = 2
           /\ agents[1].tickets_assigned = agents[2].tickets_assigned
           /\ agents[1].agent_id > agents[2].agent_id

\* the leaderboard laws of a group entry built from a record sequence
Leaderboard(tickets, top_agents) ==
    LET ids == { top_agents[i].agent_id : i \in 1..Len(top_agents) }
    IN  /\ Len(top_agents) <= 5
        /\ Len(top_agents) = Min(5, Cardinality(Responders(tickets)))
        /\ ids \subseteq Responders(tickets)
        /\ Cardinality(ids) = Len(top_agents)
        /\ \A i \in 1..Len(top_agents) :
              /\ top_agents[i].ticket_count = Assigned(tickets, top_agents[i].agent_id)
              /\ top_agents[i].ticket_count >= 1
        /\ \A i, j \in 1..Len(top_agents) :
              i < j =>
                 /\ top_agents[i].ticket_count >= top_agents[j].ticket_count
                 /\ top_agents[i].ticket_count = top_agents[j].ticket_count
                      => FirstSeen(tickets, top_agents[i].agent_id)
                           < FirstSeen(tickets, top_agents[j].agent_id)
        /\ \A out \in Responders(tickets) \ ids :
              \A i \in 1..Len(top_agents) :
                 Assigned(tickets, out) <= top_agents[i].ticket_count

\* C23: for each group of get_team_comparison, top_agents has at most 5 entries,
\* holds only responders with at least one record of the group (records without
\* responder are not counted), is ordered by descending ticket count with ties in
\* first-encountered order, and no responder left out has a higher count than one
\* that is in it.
C23_TopAgents ==
    /\ Folded("get_team_comparison") =>
          Leaderboard(Val(pure).all_tickets, Val(Val(pure).out).top_agents)
    /\ Folded("crowd") =>
          Leaderboard(Val(Val(pure).out).tickets, Val(Val(pure).out).entry.top_agents)

\* more than five responders, some left out, a record without responder, and a
\* tie among the five listed
C23_Witness ==
    /\ Folded("crowd")
    /\ LET tickets == Val(Val(pure).out).tickets
           top_agents == Val(Val(pure).out).entry.top_agents
       IN  /\ Cardinality(Responders(tickets)) > 5
           /\ Len(top_agents) = 5
           /\ \E i \in 1..Len(tickets) : IsNone(tickets[i].responder_id)
           /\ top_agents[1].ticket_count > top_agents[2].ticket_count
           /\ top_agents[4].ticket_count = top_agents[5].ticket_count

(***************************************************************************)
(* Claims about the stopping rules of the walker (under SpecWalk)          *)
(***************************************************************************)
\* the number of records on page p of a collection of n records
PageCount(n, p) == Max(0, Min(PageSize, n - (p - 1) * PageSize))

\* the rules in their order, on page p of a collection of n records walked under
\* the cap k, the cursor reporting a next relation when link is set and records
\* remain: "empty", "cap", "last", or "more" when another page is fetched
RuleAt(n, k, link, p) ==
    IF PageCount(n, p) = 0 THEN "empty"
    ELSE IF Min(n, p * PageSize) >= k THEN "cap"
    ELSE IF PageCount(n, p) < PageSize /\ ~(link /\ p * PageSize < n) THEN "last"
    ELSE "more"

\* the result the rules give for that collection
RulesGive(n, k, link, r) ==
    LET p == r.pages_fetched
    IN  /\ p >= 1
        /\ \A q \in 1..(p - 1) : RuleAt(n, k, link, q) = "more"
        /\ RuleAt(n, k, link, p) # "more"
        /\ r.truncated = (RuleAt(n, k, link, p) = "cap")
        /\ r.tickets = FirstRecords(IF r.truncated THEN k ELSE n)

\* every request of the log was answered with a 2xx response
AllAnswered(log) == \A i \in 1..Len(log) : log[i].answer = "ok"

\* the pages of the requests of a log, in order
PagesAsked(log) == [i \in 1..Len(log) |-> log[i].page]

\* what C20 requires of every step
C20_Step ==
    \A t \in Tasks :
        LET f == task[t]
            g == task'[t]
            before == Len(f.all_tickets)
        IN  (f.pc = "tickets" /\ f.op = "search_tickets_all" /\ g # f) =>
                \/ /\ g.pc = "tickets"
                   /\ g.page = f.page + 1
                   /\ Len(g.all_tickets) > before
                   /\ Len(g.all_tickets) < f.max_results
                   /\ ~g.truncated
                   /\ PagesAsked(issued'[t]) = [i \in 1..g.page |-> i]
                \/ /\ g.pc = "done"
                   /\ ~Val(g.result).success
                   /\ PagesAsked(issued'[t]) = PagesAsked(issued[t])
                \/ /\ g.pc = "done"
                   /\ Val(g.result).success
                   /\ PagesAsked(issued'[t]) = [i \in 1..f.page |-> i]
                   /\ LET r == Val(g.result)
                      IN  /\ r.pages_fetched = f.page
                          /\ SubSeq(r.tickets, 1, before) = f.all_tickets
                          /\ IF r.truncated
                             THEN Len(r.tickets) = f.max_results
                             ELSE /\ Len(r.tickets) < f.max_results
                                  /\ Len(r.tickets) - before < PageSize
                          /\ ~IsNone(f.coll)
                                => RulesGive(Val(f.coll), f.max_results, backend.link, r)

\* C20: after each successful page fetch of search_tickets_all the rules apply in
\* the order empty page, cap reached (the accumulator cut to exactly the cap,
\* truncated set), short page without next relation, and otherwise one more page
\* is requested; so a collection served in pages [30, 30, 12] without cursor
\* header gives 72 records, pages_fetched = 3, truncated = FALSE for
\* max_results = 1000, and 50 records, truncated = TRUE with requests for pages 1
\* and 2 only for max_results = 50.
C20_StoppingOrder == [][C20_Step]_vars

\* pages [30, 30, 12], no cursor header, max_results = 50: cut on page 2
C20_Witness ==
    \E t \in Tasks :
        /\ SearchSucceeded(t)
        /\ task[t].coll = Some(2 * PageSize + 12)
        /\ ~backend.link
        /\ task[t].given = Some(50)
        /\ Val(task[t].result).truncated
        /\ Len(Val(task[t].result).tickets) = 50
        /\ Val(task[t].result).pages_fetched = 2
        /\ PagesAsked(issued[t]) = <<1, 2>>

\* the same pages with max_results = 1000: 72 records after three pages
C20_Scenario1000 ==
    \E t \in Tasks :
        /\ SearchSucceeded(t)
        /\ task[t].coll = Some(2 * PageSize + 12)
        /\ ~backend.link
        /\ task[t].given = Some(1000)
        /\ ~Val(task[t].result).truncated
        /\ Len(Val(task[t].result).tickets) = 72
        /\ Val(task[t].result).pages_fetched = 3

(***************************************************************************)
(* Claims about the order of the page requests (under SpecWalk)            *)
(***************************************************************************)
\* C21: a ticket walk requests page 1 first; every request but the last has been
\* answered before the next was issued; and the request after page p is for the
\* page of the next relation of the response to p when it carries one, and for
\* p + 1 otherwise.
C21_CursorFollowed ==
    \A t \in Tasks :
        LET log == issued[t]
        IN  (task[t].op = "search_tickets_all" /\ log # <<>>) =>
                /\ log[1].page = 1
                /\ \A i \in 1..(Len(log) - 1) :
                      /\ log[i].answer = "ok"
                      /\ log[i + 1].page = IF IsNone(log[i].next)
                                           THEN log[i].page + 1
                                           ELSE Val(log[i].next)

(***************************************************************************)
(* Claims about the end of the walk (under SpecWalkFair)                   *)
(***************************************************************************)
\* a walk of search_tickets_all, begun once max_results has passed validation
Walking(t) ==
    /\ task[t].op = "search_tickets_all"
    /\ issued[t] # <<>>

\* the bound of C29 on the requests of a walk
C29_RequestsBounded ==
    \A t \in Tasks :
        Walking(t) =>
            /\ Len(issued[t]) <= Min(Val(task[t].given), MaxResultsCeiling)
            /\ PagesAsked(issued[t]) = [i \in 1..Len(issued[t]) |-> i]

\* C29: search_tickets_all terminates when every page request returns, whatever
\* the backend answers: a walk never issues more than min(max_results, 1000) page
\* requests, and a walk awaiting a page eventually returns.
C29_Terminates ==
    /\ []C29_RequestsBounded
    /\ \A t \in Tasks : (task[t].pc = "tickets") ~> (task[t].pc = "done")

\* a walk under a cap of 3 against a backend that serves one record per page and
\* always advertises a next page: three requests, then the return
C29_Witness ==
    \E t \in Tasks :
        /\ SearchSucceeded(t)
        /\ IsNone(task[t].coll)
        /\ task[t].given = Some(3)
        /\ Len(issued[t]) = 3
        /\ \A i \in 1..3 : ~IsNone(issued[t][i].next)
        /\ Val(task[t].result).truncated

\* C30: on every successful search_tickets_all result pages_fetched is the number
\* of page requests the walk issued, a final page without records included: 1 for
\* an empty result set and, for a collection of a positive multiple of 30 records
\* below the cap served without cursor header, one more than the number of pages
\* that held records.
C30_PagesFetched ==
    \A t \in Tasks :
        SearchSucceeded(t) =>
            LET r == Val(task[t].result)
            IN  /\ r.pages_fetched = Len(issued[t])
                /\ AllAnswered(issued[t])
                /\ r.total_fetched = 0 => r.pages_fetched = 1
                /\ (/\ ~IsNone(task[t].coll)
                    /\ ~backend.link
                    /\ Val(task[t].coll) > 0
                    /\ Val(task[t].coll) % PageSize = 0
                    /\ Val(task[t].coll) < task[t].max_results)
                      => r.pages_fetched = Val(task[t].coll) \div PageSize + 1

\* 60 records under a cap of 1000, no cursor header: two full pages and an empty
\* third one
C30_Witness ==
    \E t \in Tasks :
        /\ SearchSucceeded(t)
        /\ task[t].coll = Some(2 * PageSize)
        /\ ~backend.link
        /\ task[t].given = Some(1000)
        /\ Val(task[t].result).total_fetched = 2 * PageSize
        /\ Val(task[t].result).pages_fetched = 3
        /\ Len(issued[t]) = 3

(***************************************************************************)
(* Claims about what persists between calls (under Spec)                   *)
(***************************************************************************)
\* what C24 requires of every step
C24_Step ==
    /\ \A t \in Tasks :
          /\ (task'[t] # task[t] /\ "search_tickets_all" \in {task[t].op, task'[t].op})
                => cache' = cache
          /\ SearchSucceeded(t) =>
                RulesGive(Val(task[t].coll), task[t].max_results, backend.link,
                          Val(task[t].result))
          /\ (task[t].pc # "idle" /\ task'[t].pc = "idle") =>
                (task'[t] = IdleFrame /\ issued'[t] = <<>>)
    /\ cache' # cache =>
          \E t \in Tasks :
              /\ task[t].pc = "groups"
              /\ task[t].op \in {"get_agent_lookup", "get_ticket_stats",
                                 "get_agent_workload", "get_team_comparison"}
              /\ task'[t].pc # "groups"
              /\ cache'.agents = task[t].agents_dict
              /\ cache'.timestamp = task[t].now

\* C24: the only state that outlives a call is the lookup cache.  A step of
\* search_tickets_all leaves the cache as it is and its result is the one the
\* stopping rules give for the collection, whatever the cache holds; the cache
\* changes only in the step that ends the groups loop of a get_agent_lookup, made
\* by a client or on behalf of an aggregate, and then to that refresh's
\* dictionaries; and a call that has returned leaves nothing of its frame or of
\* its requests behind.
C24_OnlyCachePersists == [][C24_Step]_vars

\* a search that has returned its records while the cache holds a directory
C24_Witness ==
    /\ SearchSucceeded(1)
    /\ Val(task[1].result).total_fetched > 0
    /\ CacheFilled(cache)

(***************************************************************************)
(* Claims about the cache under concurrent refreshes (under SpecLookup)    *)
(***************************************************************************)
\* the three fields are all unset, or all set and those of one refresh
OneRefresh(c, last) ==
    /\ (IsNone(c.agents) <=> IsNone(c.groups))
    /\ (IsNone(c.groups) <=> IsNone(c.timestamp))
    /\ IF IsNone(last) THEN IsNone(c.timestamp)
       ELSE <<c.agents, c.groups, c.timestamp>>
               = <<Val(last).agents, Val(last).groups, Val(last).timestamp>>

\* a call that just returned without a request: it was served from the cache
ServedFromCache(t) ==
    /\ task[t].pc = "idle"
    /\ task'[t].pc = "done"
    /\ task'[t].op = "get_agent_lookup"

\* what C25 requires of every step
C25_Step ==
    /\ OneRefresh(cache, refreshed)
    /\ OneRefresh(cache', refreshed')
    /\ \A t \in Tasks :
          ServedFromCache(t) =>
              LET r == Val(task'[t].result)
              IN  <<Some(r.agents), Some(r.groups), Some(r.cached_at)>>
                     = <<Val(refreshed).agents, Val(refreshed).groups,
                         Val(refreshed).timestamp>>

\* C25: under any interleaving of concurrent get_agent_lookup calls the cache's
\* agents, groups and timestamp are all unset or all those of one single refresh,
\* after every step, and a call served from the cache returns the agents, groups
\* and timestamp of that one refresh.
C25_CacheConsistent == [][C25_Step]_vars

\* a call served from the cache while the refresh of the other client stands
\* between its agents and its groups
C25_Witness ==
    \E t, u \in Tasks :
        /\ t # u
        /\ task[t].op = "get_agent_lookup" /\ task[t].pc = "done"
        /\ issued[t] = <<>>
        /\ task[u].pc = "groups"
        /\ task[u].agents_dict # cache.agents
        /\ CacheFilled(cache)

\* C26: the timestamp stored in the cache never decreases: once the cache holds
\* a directory stamped t, no step stores a directory stamped earlier than t.
C26_TimestampMonotone ==
    [][CacheFilled(cache) =>
          (CacheFilled(cache') /\ Val(cache'.timestamp) >= Val(cache.timestamp))]_vars

\* a call of get_agent_lookup that has failed
FailedLookup(u) ==
    /\ task[u].op = "get_agent_lookup"
    /\ task[u].pc = "done"
    /\ ~Val(task[u].result).success

\* what C28 requires of every step
C28_Step ==
    \A t, u \in Tasks :
        (t # u /\ FailedLookup(u)) =>
            /\ (/\ task[t].pc = "idle"
                /\ task'[t].op = "get_agent_lookup"
                /\ ~(CacheFilled(cache) /\ clock - Val(cache.timestamp) < 300))
                  => /\ task'[t].pc = "agents"
                     /\ issued'[t] = <<Request("agents", 1, 0)>>
                     /\ task'[t].agents_dict = Some(EmptyDict)
                     /\ task'[t].groups_dict = Some(EmptyDict)
            /\ (/\ task[t].op = "get_agent_lookup"
                /\ task[t].pc # "done"
                /\ task'[t].pc = "done"
                /\ issued'[t] # <<>>
                /\ AllAnswered(issued'[t]))
                  => /\ Val(task'[t].result).success
                     /\ CacheFilled(cache')
                     /\ cache'.agents = Some(Val(task'[t].result).agents)
                     /\ cache'.groups = Some(Val(task'[t].result).groups)
                     /\ cache'.timestamp = task'[t].now

\* C28: a failed refresh is not remembered.  Once a get_agent_lookup call has
\* failed, a call made while the stored directory is absent or at least 300
\* seconds old starts again with page 1 of the agents endpoint and with empty
\* dictionaries, and a call all of whose requests are answered succeeds and
\* leaves its directories in the cache.
C28_FailureForgotten == [][C28_Step]_vars

\* a call that failed on its first request, and a later one that refreshed
C28_Witness ==
    \E t, u \in Tasks :
        /\ FailedLookup(u)
        /\ Len(issued[u]) = 1
        /\ Refreshed(t)
        /\ Val(task[t].now) > Val(task[u].now)
        /\ issued[t][1] = [Request("agents", 1, 0) EXCEPT !.answer = "ok",
                                                          !.next = issued[t][1].next]
        /\ cache.agents = Some(Val(task[t].result).agents)

(***************************************************************************)
(* An aggregate of one client while another client calls get_agent_lookup  *)
(* and agents join the account.                                            *)
(***************************************************************************)
Aggregates == {"get_ticket_stats", "get_agent_workload", "get_team_comparison"}

\* the tickets of the compared groups: 31 of the first, 12 of the others
SnapshotColl == [i \in 1..(MaxGroups + 1) |-> IF i = 1 THEN PageSize + 1 ELSE 12]

InitSnapshot ==
    /\ task = [t \in Tasks |-> IdleFrame]
    /\ cache = EmptyCache
    /\ clock = 0
    /\ backend \in [agents : {1}, groups : {PageSize + 1}, link : BOOLEAN]
    /\ issued = [t \in Tasks |-> <<>>]
    /\ refreshed = None
    /\ pure = None

NextSnapshot ==
    \/ CallStats(1, Some(1), None, None, Some(PageSize + 12))
    \/ CallWorkload(1, None, Some(1), Some(<<"7", "d">>), None, None, Some(PageSize + 12))
    \/ CallTeam(1, Some(<<2, 1>>), None, None, SnapshotColl)
    \/ CallLookup(2)
    \/ \E t \in Tasks : AgentsResponse(t)
    \/ \E t \in Tasks : GroupsResponse(t)
    \/ TicketsResponse(1)
    \/ \E t \in Tasks : Return(t)
    \/ BackendChange

SpecSnapshot == InitSnapshot /\ [][NextSnapshot]_vars

(***************************************************************************)
(* Claims about the directory an aggregate uses (under SpecSnapshot)       *)
(***************************************************************************)
\* the directory a call of get_agent_lookup made in this step returns to the
\* aggregate of task t: the stored one on a fresh cache, else the one of the
\* refresh that this step completes
OwnLookup(t) ==
    IF task[t].pc = "idle"
    THEN [agents |-> Val(cache.agents), groups |-> Val(cache.groups)]
    ELSE [agents |-> Val(task'[t].agents_dict), groups |-> Val(task'[t].groups_dict)]

\* the names of a successful result are those of this directory
NamedBy(f, lookup) ==
    LET r == Val(f.result)
    IN  CASE f.op = "get_ticket_stats" ->
                /\ r.stats = TicketStats(Records(FirstRecords(Val(f.coll))), lookup.agents)
                /\ r.filters.group_name = GroupName(Val(f.args).group_id, lookup.groups)
          [] f.op = "get_agent_workload" ->
                /\ r.agents = WorkloadAgents(Records(FirstRecords(Val(f.coll))),
                                             lookup.agents)
                /\ r.group_name = GroupName(Val(f.args).group_id, lookup.groups)
          [] f.op = "get_team_comparison" ->
                LET group_ids == Val(Val(f.args).group_ids)
                IN  /\ Len(r.comparison) = Len(group_ids)
                    /\ \A i \in 1..Len(group_ids) :
                          r.comparison[i]
                             = GroupComparison(group_ids[i],
                                               Records(FirstRecords(f.coll[i])),
                                               lookup.agents, lookup.groups)

\* what C27 requires of every step
C27_Step ==
    \A t \in Tasks :
        (task'[t].op \in Aggregates /\ task'[t] # task[t]) =>
            /\ (IsNone(task[t].lookup) /\ ~IsNone(task'[t].lookup))
                  => Val(task'[t].lookup) = OwnLookup(t)
            /\ ~IsNone(task[t].lookup) => task'[t].lookup = task[t].lookup
            /\ (task'[t].pc = "done" /\ Val(task'[t].result).success)
                  => NamedBy(task'[t], Val(task'[t].lookup))

\* C27: an aggregate takes its directory from its own get_agent_lookup call, keeps
\* it until it returns whatever happens to the cache meanwhile, and resolves every
\* agent id and group id of its result against it.
C27_OneSnapshot == [][C27_Step]_vars

\* a ticket statistic returned with the names of the directory the call began
\* with, after the other client's refresh has stored a larger one
C27_Witness ==
    \E t \in Tasks :
        /\ task[t].op = "get_ticket_stats"
        /\ task[t].pc = "done"
        /\ Val(task[t].result).success
        /\ CacheFilled(cache)
        /\ Val(cache.agents) # Val(task[t].lookup).agents
        /\ Val(task[t].result).stats.by_agent
              # TicketStats(Records(task[t].all_tickets), Val(cache.agents)).by_agent

\* the same for a team comparison whose second group was walked after the store
C27_TeamWitness ==
    \E t \in Tasks :
        /\ task[t].op = "get_team_comparison"
        /\ task[t].pc = "done"
        /\ Val(task[t].result).success
        /\ CacheFilled(cache)
        /\ Val(cache.agents) # Val(task[t].lookup).agents

(***************************************************************************)
(* parse_link_header alone: a header of at most MaxLinks entries drawn     *)
(* from SampleLinks.                                                       *)
(***************************************************************************)
MaxLinks == 2

SampleParams ==
    { <<>>,
      <<Param("page", Some(2))>>,
      <<Param("page", None)>>,
      <<Param("per_page", Some(PageSize))>>,
      <<Param("per_page", Some(PageSize)), Param("page", Some(2))>>,
      <<Param("page", Some(2)), Param("per_page", Some(PageSize))>>,
      <<Param("query", Some(7)), Param("page", Some(3))>> }

SampleLinks ==
    { RawLink(b, ps, rel) : b \in BOOLEAN, ps \in SampleParams,
                            rel \in {"next", "prev", "last"} }

InitLink ==
    /\ task = [t \in Tasks |-> IdleFrame]
    /\ cache = EmptyCache
    /\ clock = 0
    /\ backend \in [agents : {0}, groups : {0}, link : {FALSE}]
    /\ issued = [t \in Tasks |-> <<>>]
    /\ refreshed = None
    /\ \E header \in SeqsUpTo(SampleLinks, MaxLinks) :
         pure = Some([fn |-> "none", header |-> header, out |-> None])

ParseHeader == Apply("parse_link_header", parse_link_header(Scan(Val(pure).header)))

NextLink == ParseHeader

SpecLink == InitLink /\ [][NextLink]_vars

(***************************************************************************)
(* Claims about parse_link_header (under SpecLink)                         *)
(***************************************************************************)
\* the value of the url's parameter named page, None without one or when it is
\* not a number
RECURSIVE PageParam(_)
PageParam(params) ==
    IF params = <<>> THEN None
    ELSE IF Head(params).name = "page" THEN Head(params).value
    ELSE PageParam(Tail(params))

\* a well-formed entry whose url has page=<integer>
ValidLink(entry) == entry.bracketed /\ ~IsNone(PageParam(entry.params))

\* C18: parse_link_header never fails.  For a header without valid entries it
\* returns next and prev absent, and for a header whose (last) valid rel="next"
\* entry has page=n in its url it returns next = n.
C18_ParseLaw ==
    Folded("parse_link_header") =>
        LET header == Val(pure).header
            out == Val(Val(pure).out)
        IN  /\ (\A i \in 1..Len(header) : ~ValidLink(header[i]))
                  => (IsNone(out["next"]) /\ IsNone(out["prev"]))
            /\ \A i \in 1..Len(header) :
                  (/\ ValidLink(header[i]) /\ header[i].rel = "next"
                   /\ \A j \in (i + 1)..Len(header) : header[j].rel # "next")
                      => out["next"] = PageParam(header[i].params)

\* C19: entries whose relation is neither next nor prev are skipped: the mapping
\* returned has exactly the keys next and prev and is the one returned for the
\* header without those entries.
C19_OnlyNextPrev ==
    Folded("parse_link_header") =>
        LET header == Val(pure).header
            out == Val(Val(pure).out)
            walked == SelectSeq(header, LAMBDA entry : entry.rel \in {"next", "prev"})
        IN  /\ DOMAIN out = {"next", "prev"}
            /\ out = parse_link_header(Scan(walked))

=============================================================================
